---------------------------- MODULE Spec2Model ----------------------------
(***************************************************************************)
(* A model of the Eufy Security client manager of                          *)
(* node-red-contrib-eufy-security (src/src/lib/eufy-client.ts) and of the  *)
(* calls the config node makes into it (src/src/nodes/eufy-config.ts), and *)
(* of the eufy-event node that listens to it (src/unnamed/part_000).       *)
(*                                                                         *)
(* JavaScript runs one callback at a time: an action below is one run to   *)
(* completion of a call, an event handler or a timer callback, up to its   *)
(* next `await` on the outside world.  The continuation of an `await` on   *)
(* a promise that a handler settles runs in the microtask that follows the *)
(* handler, before any other callback, and is part of the same action.     *)
(*                                                                         *)
(* The eufy-security-client library is the environment: its objects        *)
(* (clients) raise events and settle promises when they choose; the model  *)
(* keeps of each client only what the manager can observe.                 *)
(***************************************************************************)
EXTENDS Integers, Sequences, FiniteSets, TLC

\* ------------------------------------------------------------- bounds
MaxSessions == 2        \* EufyClientManager objects ever constructed
MaxClients == 2         \* EufySecurity objects ever initialized
MaxConnectCalls == 3    \* connect() calls ever made
MaxSubmitCalls == 1     \* connectWith2FA / connectWithCaptcha calls ever made
MaxWaitCalls == 2       \* waitForStation() calls ever made
MaxCmdCalls == 2        \* setSnooze() calls ever made
MaxNodes == 2           \* eufy-event nodes ever constructed
MaxInputs == 2          \* messages ever handed to eufy-device nodes

ConfigIds == {"cfgA", "cfgB"}
SessionIds == 1..MaxSessions
ClientIds == 1..MaxClients
ConnectIds == 1..MaxConnectCalls
SubmitIds == 1..MaxSubmitCalls
WaitIds == 1..MaxWaitCalls
CmdIds == 1..MaxCmdCalls
NodeIds == 1..MaxNodes
InputIds == 1..MaxInputs
Stations == {"S1", "S2"}
Devices == {"D1", "D2"}

\* ------------------------------------------------------------- values
NoError == "undefined"
ErrConnectionTimeout == "Connection timeout"
ErrClientNotInitialized == "Client not initialized"
ErrLibrary == "library error"
ErrClientNotConnected == "Client not connected"
ErrStationTimeout == "Station P2P connection timeout"
ErrNullClient == "TypeError: this.client is null"

\* The station of each device (device.getStationSerial()).
StationOf(d) == IF d = "D1" THEN "S1" ELSE "S2"

\* The status a constructor builds.
InitialStatus ==
  [connected |-> FALSE, cloudConnected |-> FALSE, pushConnected |-> FALSE,
   stations |-> << >>, error |-> NoError]

FreeClient ==
  [owner |-> 0, phase |-> "none", onceConnect |-> 0, onceError |-> 0,
   push |-> FALSE, p2p |-> {}, listeners |-> {}, due |-> << >>,
   closes |-> 0]

FreeConnect ==
  [sess |-> 0, pc |-> "free", outcome |-> "pending", error |-> NoError,
   timer |-> "none", cl |-> 0, early |-> FALSE, during |-> 0]

FreeSubmit ==
  [sess |-> 0, kind |-> "none", pc |-> "free", outcome |-> "pending",
   error |-> NoError, cl |-> 0, pending |-> "none", forwarded |-> FALSE]

FreeWait ==
  [sess |-> 0, serial |-> "none", pc |-> "free", outcome |-> "pending",
   error |-> NoError, timer |-> "none", cl |-> 0, cmd |-> 0]

FreeCmd ==
  [sess |-> 0, device |-> "none", pc |-> "free", outcome |-> "pending",
   error |-> NoError, success |-> FALSE, timer |-> "none", cl |-> 0,
   by |-> 0]

NoReturn == [cfg |-> "none", inst |-> 0, prior |-> 0, created |-> FALSE]

\* JavaScript's undefined, where a string is expected.
Undefined == "undefined"

\* The event types the model raises (of EufyEventType and ALL_EVENTS).
EventTypes == {"motion", "personDetected"}

\* EufyEventType: one per device signal the manager listens to.
SignalTypes ==
  {"motion", "personDetected", "petDetected", "cryingDetected",
   "soundDetected", "rings", "propertyChanged"}

\* What a device signal carries besides the device and `state`: the
\* person of "device person detected", the name and the value of
\* "device property changed".
SignalArgs ==
  [person : {"", "alice"}, name : {"battery"}, value : {0, 80}]

\* The arguments of a signal whose person, name and value do not matter.
PlainArgs == [person |-> "", name |-> "battery", value |-> 0]

\* The configurations of the eufy-event nodes: `device` and `events`.
NodeConfigs ==
  {[device |-> "", events |-> << >>],
   [device |-> "D1", events |-> << >>],
   [device |-> "D2", events |-> <<"motion">>],
   [device |-> "", events |-> <<"rings", "personDetected">>]}

\* The `device` and `events` fields an input message may hold.
PayloadDevices == {"", "D2"}
PayloadLists == {<< >>, <<"motion">>}

\* `this.runtimeFilter = {}`: neither field is set.
EmptyFilter == [device |-> Undefined, hasEvents |-> FALSE, events |-> << >>]

\* `configured`: Red.nodes.getNode found the config node; `configNode`: the
\* manager that config node held as its `client` then (0: null).
FreeNode ==
  [config |-> "none", configured |-> FALSE, configNode |-> 0, device |-> "",
   events |-> << >>, runtimeFilter |-> EmptyFilter]

\* No emit("deviceEvent", ...) yet.  `sent` lists the nodes that sent a
\* message for the event, in the order they did.
NoEmit ==
  [sess |-> 0, event |-> "none", device |-> "none", value |-> [none |-> TRUE],
   sent |-> << >>, threw |-> FALSE]

\* The errors the "input" handler of a eufy-device node throws.
ErrNotConfigured == "Eufy client not configured"
ErrNotConnected == "Not connected to Eufy Security"
ErrNoStation == "No station specified"
ErrNoDevice == "No device specified"
ErrNoAction == "No action specified"
ErrSnoozeStation == "Snooze is only available for devices"
ErrUnsnoozeStation == "Unsnooze is only available for devices"
ErrPropertyName == "Property name required in options.property or node config"
ErrCustomProperty == "Custom property name required"
ErrPropertyValue == "Property value required in options.value or node config"
ErrPanTiltStation == "Pan/Tilt is only available for devices"
ErrDirection ==
  "Direction required in options.direction or node config (LEFT, RIGHT, UP, DOWN, ROTATE360)"
ErrSpeedStation == "Pan/Tilt speed is only available for devices"
ErrSpeed == "Speed required in options.speed or node config"
ErrUnknownAction(action) == "Unknown action: " \o action

\* `options.duration || 7200`: the default snooze, in seconds.
DefaultSnooze == 7200

\* The property name that stands for "take customProperty".
Custom == "__CUSTOM__"

\* JavaScript values of any type (options.value, options.speed,
\* options.command and what is made of them): the type and, by type, the
\* boolean, the number or the string.
JsUndefined == [type |-> "undefined", bool |-> FALSE, num |-> 0, str |-> ""]
JsNull == [type |-> "null", bool |-> FALSE, num |-> 0, str |-> ""]
JsBool(b) == [type |-> "boolean", bool |-> b, num |-> 0, str |-> ""]
JsNum(n) == [type |-> "number", bool |-> FALSE, num |-> n, str |-> ""]
JsStr(s) == [type |-> "string", bool |-> FALSE, num |-> 0, str |-> s]

\* What `||` and `if` take as true.
JsTruthy(v) ==
  \/ v.type = "boolean" /\ v.bool
  \/ v.type = "number" /\ v.num # 0
  \/ v.type = "string" /\ v.str # ""

\* String.prototype.trim on the strings of the node configurations.
Trim(str) ==
  CASE str = " 42 " -> "42"
    [] str = " " -> ""
    [] OTHER -> str

\* Number(str) on trimmed strings: whether it is a number (not NaN), and
\* which; Number("") is 0.
IsNumber(str) == str \in {"", "42", "3"}
NumberOf(str) ==
  CASE str = "42" -> 42
    [] str = "3" -> 3
    [] OTHER -> 0

\* The configurations of the eufy-device nodes (targetType is
\* `config.targetType || "device"`): the target, the action, and the
\* property, value, direction and speed of the actions that take one.
\* Those of the nodes for the snooze and unsnooze actions:
SnoozeNodeDefs ==
  {[device |-> t[1], station |-> t[2], targetType |-> t[3], action |-> t[4],
    property |-> Undefined, customProperty |-> Undefined,
    propertyValue |-> Undefined, panTiltDirection |-> Undefined,
    panTiltSpeed |-> Undefined] :
      t \in {<<"D1", "S1", "device", "snooze">>,
             <<"", "", "device", "">>,
             <<"D1", "S1", "station", "unsnooze">>}}

\* that of a node for the other actions,
ActionNode ==
  [device |-> "D1", station |-> "S1", targetType |-> "device",
   action |-> "getProperties", property |-> Custom, customProperty |-> "",
   propertyValue |-> " 42 ", panTiltDirection |-> "", panTiltSpeed |-> " "]

\* and that of a node for which only a device and an action were entered.
PlainNode ==
  [device |-> "D1", station |-> "", targetType |-> "device",
   action |-> "setProperty", property |-> "", customProperty |-> "",
   propertyValue |-> "", panTiltDirection |-> "", panTiltSpeed |-> ""]

\* The options of a message that gives none.
NoOptions ==
  [hasDuration |-> FALSE, duration |-> 0, property |-> Undefined,
   customProperty |-> Undefined, value |-> JsUndefined,
   direction |-> Undefined, command |-> JsUndefined, speed |-> JsUndefined]

\* A payload with an action, a target type and options, and no target.
Payload(action, targetType, options) ==
  [targetType |-> targetType, device |-> Undefined, station |-> Undefined,
   action |-> action, options |-> options]

\* The payloads of the messages for the snooze and unsnooze actions and
\* for an action the node does not know: each of targetType, device and
\* action is a string or undefined, and options.duration is a number or
\* absent.
SnoozePayloads ==
  {[targetType |-> t, device |-> d, station |-> Undefined, action |-> ao[1],
    options |-> [NoOptions EXCEPT !.hasDuration = ao[2], !.duration = ao[3]]] :
      t \in {Undefined, "station"}, d \in {Undefined, "D2"},
      ao \in {<<Undefined, FALSE, 0>>, <<Undefined, TRUE, 0>>,
              <<Undefined, TRUE, 3600>>, <<"unsnooze", FALSE, 0>>,
              <<"reboot", FALSE, 0>>}}

\* The payloads of the messages for the other actions, with the options
\* each of them reads.
ActionPayloads ==
  {Payload("getProperties", t, NoOptions) : t \in {Undefined, "station"}}
  \cup
  {Payload("getProperty", Undefined, NoOptions),
   Payload("getProperty", "station", [NoOptions EXCEPT !.property = "battery"]),
   Payload("getProperty", Undefined, [NoOptions EXCEPT !.customProperty = "custom1"]),
   Payload("setProperty", Undefined,
           [NoOptions EXCEPT !.property = "battery", !.value = JsNull]),
   Payload("setProperty", Undefined, [NoOptions EXCEPT !.property = "battery"]),
   Payload("setProperty", "station",
           [NoOptions EXCEPT !.property = "battery", !.value = JsBool(FALSE)]),
   Payload("panTilt", Undefined, [NoOptions EXCEPT !.command = JsNum(2)]),
   Payload("panTilt", "station", [NoOptions EXCEPT !.direction = "LEFT"]),
   Payload("panTilt", Undefined,
           [NoOptions EXCEPT !.direction = "LEFT", !.command = JsNum(0)]),
   Payload("setPanTiltSpeed", Undefined, NoOptions),
   Payload("setPanTiltSpeed", Undefined, [NoOptions EXCEPT !.speed = JsNull]),
   Payload("setPanTiltSpeed", "station", [NoOptions EXCEPT !.speed = JsNum(3)])}

\* The payloads for a node without property, value, direction or speed.
PlainPayloads ==
  {Payload(Undefined, Undefined, NoOptions),
   Payload(Undefined, Undefined, [NoOptions EXCEPT !.property = "battery"]),
   Payload("setPanTiltSpeed", Undefined, NoOptions),
   Payload("setPanTiltSpeed", Undefined, [NoOptions EXCEPT !.speed = JsNum(3)])}

\* The messages the nodes are handed: a node configuration and a payload.
DeviceInputs ==
  (SnoozeNodeDefs \X SnoozePayloads)
    \cup ({ActionNode} \X ActionPayloads)
    \cup ({PlainNode} \X PlainPayloads)

\* `result` of an output message: absent (`kind` "none"), or by the action
\* {snoozed, duration}, {snoozed}, the properties, {property, value},
\* {property, value, success}, {direction, command, success} or
\* {speed, success}.
NoResult ==
  [present |-> FALSE, kind |-> "none", snoozed |-> FALSE, duration |-> 0,
   properties |-> "none", property |-> Undefined, value |-> JsUndefined,
   direction |-> Undefined, command |-> JsUndefined, speed |-> JsUndefined,
   success |-> FALSE]

\* What the call of a manager method has come to: not made, pending,
\* resolved (with `success` or `value`) or rejected (with `error`).
NoCall ==
  [method |-> "none", outcome |-> "none", error |-> NoError,
   success |-> FALSE, value |-> JsUndefined]

\* A message of a eufy-device node that is not handled yet.  `reported` is
\* what done() was handed: "none" while it was not called.  `cmd` is the
\* setSnooze() call the handler awaits, `call` the call of another manager
\* method, and `result` what the handler has computed of its result.
FreeInput ==
  [sess |-> 0, pc |-> "free", action |-> "none", targetType |-> "none",
   target |-> "none", duration |-> 0, cmd |-> 0, call |-> NoCall,
   result |-> NoResult, sends |-> 0, reported |-> "none"]

\* No output message yet.
NoOutput ==
  [input |-> 0, success |-> FALSE, action |-> "none", device |-> "none",
   station |-> "none", target |-> "none", targetType |-> "none",
   result |-> NoResult, error |-> "none"]

\* The payloads of the input messages: msg.payload undefined, or an object
\* in which each of `device` and `events` is present or not.
Payloads ==
  {[defined |-> FALSE, hasDevice |-> FALSE, device |-> Undefined,
    hasEvents |-> FALSE, events |-> << >>]}
  \cup {[defined |-> TRUE, hasDevice |-> FALSE, device |-> Undefined,
         hasEvents |-> FALSE, events |-> << >>]}
  \cup {[defined |-> TRUE, hasDevice |-> TRUE, device |-> d,
         hasEvents |-> FALSE, events |-> << >>] : d \in PayloadDevices}
  \cup {[defined |-> TRUE, hasDevice |-> FALSE, device |-> Undefined,
         hasEvents |-> TRUE, events |-> l] : l \in PayloadLists}
  \cup {[defined |-> TRUE, hasDevice |-> TRUE, device |-> d,
         hasEvents |-> TRUE, events |-> l] : d \in PayloadDevices, l \in PayloadLists}

VARIABLES
  instances,     \* the module's Map: configId -> manager (0: no entry)
  nSessions,     \* managers constructed so far (they are 1..nSessions)
  configOf,      \* manager -> its config.configId
  released,      \* managers that removeInstance has closed and deleted
  returned,      \* what the last getInstance call returned
  unconfigured,  \* the config nodes constructed without credentials
  client,        \* manager -> this.client (0: null)
  status,        \* manager -> this.status
  connecting,    \* manager -> this.connecting
  surfaced,      \* manager -> the challenge event it emitted last
  nClients,      \* EufySecurity objects initialized so far
  clients,       \* EufySecurity object -> its listeners and library state
  nConnect,      \* connect() calls made so far
  connCalls,     \* connect() call -> where it stands
  nSubmit,       \* connectWith2FA / connectWithCaptcha calls made so far
  subCalls,      \* such a call -> where it stands
  stationReadyPromises, \* manager -> this.stationReadyPromises
  nWait,         \* waitForStation() calls made so far
  waitCalls,     \* waitForStation() call -> where it stands
  nCmd,          \* setSnooze() calls made so far
  cmdCalls,      \* setSnooze() call -> where it stands
  dispatched,    \* the setSnooze() calls whose station.snooze() ran, in order
  nNodes,        \* eufy-event nodes constructed so far
  eventNodes,    \* eufy-event node -> its fields
  deviceEventListeners, \* manager -> its "deviceEvent" listeners, in order
  lastEmit,      \* the last emit("deviceEvent", ...) and how it ended
  nInputs,       \* messages the eufy-device nodes were handed so far
  deviceCalls,   \* such a message -> where its "input" handler stands
  lastOutput     \* the last message a eufy-device node sent

vars == <<instances, nSessions, configOf, released, returned, unconfigured,
          client, status,
          connecting, surfaced, nClients, clients, nConnect, connCalls,
          nSubmit, subCalls, stationReadyPromises, nWait, waitCalls,
          nCmd, cmdCalls, dispatched, nNodes, eventNodes,
          deviceEventListeners, lastEmit, nInputs, deviceCalls, lastOutput>>

registryVars == <<instances, nSessions, configOf, released, returned, unconfigured>>
clientVars == <<nClients, clients>>
connectVars == <<nConnect, connCalls>>
submitVars == <<nSubmit, subCalls>>
readyVars == <<stationReadyPromises, nWait, waitCalls>>
cmdVars == <<nCmd, cmdCalls, dispatched>>
eventVars == <<nNodes, eventNodes, deviceEventListeners, lastEmit>>
deviceVars == <<nInputs, deviceCalls, lastOutput>>

Created == 1..nSessions

\* The connect() calls of manager s that are between `connecting = true`
\* and the `finally` that resets it.
InFlight(s) ==
  {k \in ConnectIds : connCalls[k].sess = s /\ connCalls[k].pc \in {"init", "wait"}}

Init ==
  /\ instances = [c \in ConfigIds |-> 0]
  /\ nSessions = 0
  /\ configOf = [s \in SessionIds |-> "none"]
  /\ released = {}
  /\ returned = NoReturn
  /\ unconfigured = {}
  /\ client = [s \in SessionIds |-> 0]
  /\ status = [s \in SessionIds |-> InitialStatus]
  /\ connecting = [s \in SessionIds |-> FALSE]
  /\ surfaced = [s \in SessionIds |-> "none"]
  /\ nClients = 0
  /\ clients = [c \in ClientIds |-> FreeClient]
  /\ nConnect = 0
  /\ connCalls = [k \in ConnectIds |-> FreeConnect]
  /\ nSubmit = 0
  /\ subCalls = [k \in SubmitIds |-> FreeSubmit]
  /\ stationReadyPromises = [s \in SessionIds |-> [st \in Stations |-> 0]]
  /\ nWait = 0
  /\ waitCalls = [w \in WaitIds |-> FreeWait]
  /\ nCmd = 0
  /\ cmdCalls = [m \in CmdIds |-> FreeCmd]
  /\ dispatched = << >>
  /\ nNodes = 0
  /\ eventNodes = [n \in NodeIds |-> FreeNode]
  /\ deviceEventListeners = [s \in SessionIds |-> << >>]
  /\ lastEmit = NoEmit
  /\ nInputs = 0
  /\ deviceCalls = [i \in InputIds |-> FreeInput]
  /\ lastOutput = NoOutput

\* ----------------------------------------------------------- registry

\* getInstance that constructs a manager whether or not one is registered.
getInstanceAlwaysNew(cfg) ==
  /\ nSessions < MaxSessions
  /\ nSessions' = nSessions + 1
  /\ configOf' = [configOf EXCEPT ![nSessions + 1] = cfg]
  /\ instances' = [instances EXCEPT ![cfg] = nSessions + 1]
  /\ returned' = [cfg |-> cfg, inst |-> nSessions + 1,
                  prior |-> instances[cfg], created |-> TRUE]
  /\ UNCHANGED <<released, unconfigured, client, status, connecting, surfaced>>
  /\ UNCHANGED <<eventVars, deviceVars>>
  /\ UNCHANGED <<clientVars, connectVars, submitVars, readyVars, cmdVars>>

\* static getInstance(config): the registered manager, or a new one that
\* the constructor leaves disconnected and that is registered.
getInstance(cfg) ==
  /\ IF instances[cfg] # 0
     THEN /\ returned' = [cfg |-> cfg, inst |-> instances[cfg],
                          prior |-> instances[cfg], created |-> FALSE]
          /\ UNCHANGED <<instances, nSessions, configOf>>
     ELSE /\ nSessions < MaxSessions
          /\ nSessions' = nSessions + 1
          /\ configOf' = [configOf EXCEPT ![nSessions + 1] = cfg]
          /\ instances' = [instances EXCEPT ![cfg] = nSessions + 1]
          /\ returned' = [cfg |-> cfg, inst |-> nSessions + 1,
                          prior |-> 0, created |-> TRUE]
  /\ UNCHANGED <<released, unconfigured, client, status, connecting, surfaced>>
  /\ UNCHANGED <<eventVars, deviceVars>>
  /\ UNCHANGED <<clientVars, connectVars, submitVars, readyVars, cmdVars>>

\* A close() that keeps this.client.
KeptClient(s) == client

\* What close() leaves of the manager's fields.
ClosedClient(s) == [client EXCEPT ![s] = 0]

\* A close() that resets `connected` and leaves cloudConnected.
ClosedStatusKeepsCloud(s) ==
  [status EXCEPT ![s].connected = FALSE, ![s].pushConnected = FALSE,
                 ![s].stations = << >>]

ClosedStatus(s) ==
  [status EXCEPT ![s].connected = FALSE, ![s].cloudConnected = FALSE,
                 ![s].pushConnected = FALSE, ![s].stations = << >>]

\* client.close() of the library, called on the manager's client if any;
\* `closes` counts the calls.
ClosedClients(s) ==
  IF client[s] # 0
  THEN [clients EXCEPT ![client[s]].phase = "closed",
                       ![client[s]].push = FALSE, ![client[s]].p2p = {},
                       ![client[s]].due = << >>,
                       ![client[s]].closes = @ + 1]
  ELSE clients

\* close(): closes and drops the client, resets the status.  It touches
\* neither `connecting` nor any pending call.
close(s) ==
  /\ s \in Created
  /\ clients' = ClosedClients(s)
  /\ client' = ClosedClient(s)
  /\ status' = ClosedStatus(s)
  /\ UNCHANGED <<registryVars, eventVars, deviceVars, connecting, surfaced, nClients>>
  /\ UNCHANGED <<connectVars, submitVars, readyVars, cmdVars>>

\* removeInstance that closes the manager and leaves its entry in the Map.
removeInstanceKeepsEntry(cfg) ==
  /\ IF instances[cfg] # 0
     THEN /\ clients' = ClosedClients(instances[cfg])
          /\ client' = ClosedClient(instances[cfg])
          /\ status' = ClosedStatus(instances[cfg])
          /\ released' = released \cup {instances[cfg]}
     ELSE UNCHANGED <<clients, client, status, released>>
  /\ UNCHANGED <<instances, nSessions, configOf, returned, unconfigured>>
  /\ UNCHANGED <<connecting, surfaced, nClients>>
  /\ UNCHANGED <<eventVars, deviceVars>>
  /\ UNCHANGED <<connectVars, submitVars, readyVars, cmdVars>>

\* static removeInstance(configId): close and delete the entry, if any.
removeInstance(cfg) ==
  /\ IF instances[cfg] # 0
     THEN /\ clients' = ClosedClients(instances[cfg])
          /\ client' = ClosedClient(instances[cfg])
          /\ status' = ClosedStatus(instances[cfg])
          /\ instances' = [instances EXCEPT ![cfg] = 0]
          /\ released' = released \cup {instances[cfg]}
     ELSE UNCHANGED <<clients, client, status, instances, released>>
  /\ UNCHANGED <<nSessions, configOf, returned, unconfigured>>
  /\ UNCHANGED <<connecting, surfaced, nClients>>
  /\ UNCHANGED <<eventVars, deviceVars>>
  /\ UNCHANGED <<connectVars, submitVars, readyVars, cmdVars>>

\* ------------------------------------------------------------ connect

\* The inner promise of connect() call k is still pending.
Waiting(k) == k # 0 /\ connCalls[k].pc = "wait"

\* clearTimeout on the connect timer of call k.
ClearedTimer(tm) == IF tm = "armed" THEN "cleared" ELSE tm

\* connect() without the `if (this.connecting) return` guard.
connectUnguarded(s) ==
  /\ s \in Created
  /\ nConnect < MaxConnectCalls
  /\ nConnect' = nConnect + 1
  /\ IF client[s] # 0 /\ status[s].connected
     THEN /\ connCalls' = [connCalls EXCEPT ![nConnect + 1] =
                 [FreeConnect EXCEPT !.sess = s, !.pc = "done",
                                     !.outcome = "resolved"]]
          /\ UNCHANGED connecting
     ELSE /\ connCalls' = [connCalls EXCEPT ![nConnect + 1] =
                 [FreeConnect EXCEPT !.sess = s, !.pc = "init"]]
          /\ connecting' = [connecting EXCEPT ![s] = TRUE]
  /\ UNCHANGED <<registryVars, eventVars, deviceVars, client, status, surfaced, clientVars>>
  /\ UNCHANGED <<submitVars, readyVars, cmdVars>>

\* connect() without the `if (this.client && this.status.connected) return`
\* guard.
connectWhenConnected(s) ==
  /\ s \in Created
  /\ nConnect < MaxConnectCalls
  /\ nConnect' = nConnect + 1
  /\ IF connecting[s]
     THEN /\ connCalls' = [connCalls EXCEPT ![nConnect + 1] =
                 [FreeConnect EXCEPT !.sess = s, !.pc = "done",
                                     !.outcome = "resolved", !.early = TRUE,
                                     !.during = CHOOSE k \in InFlight(s) : TRUE]]
          /\ UNCHANGED connecting
     ELSE /\ connCalls' = [connCalls EXCEPT ![nConnect + 1] =
                 [FreeConnect EXCEPT !.sess = s, !.pc = "init"]]
          /\ connecting' = [connecting EXCEPT ![s] = TRUE]
  /\ UNCHANGED <<registryVars, eventVars, deviceVars, client, status, surfaced, clientVars>>
  /\ UNCHANGED <<submitVars, readyVars, cmdVars>>

\* connect(), up to `await EufySecurity.initialize(...)`: returns at once
\* while a connect() is in flight or when connected, else starts an attempt.
connect(s) ==
  /\ s \in Created
  /\ nConnect < MaxConnectCalls
  /\ nConnect' = nConnect + 1
  /\ IF connecting[s]
     THEN /\ connCalls' = [connCalls EXCEPT ![nConnect + 1] =
                 [FreeConnect EXCEPT !.sess = s, !.pc = "done",
                                     !.outcome = "resolved", !.early = TRUE,
                                     !.during = CHOOSE k \in InFlight(s) : TRUE]]
          /\ UNCHANGED connecting
     ELSE IF client[s] # 0 /\ status[s].connected
     THEN /\ connCalls' = [connCalls EXCEPT ![nConnect + 1] =
                 [FreeConnect EXCEPT !.sess = s, !.pc = "done",
                                     !.outcome = "resolved"]]
          /\ UNCHANGED connecting
     ELSE /\ connCalls' = [connCalls EXCEPT ![nConnect + 1] =
                 [FreeConnect EXCEPT !.sess = s, !.pc = "init"]]
          /\ connecting' = [connecting EXCEPT ![s] = TRUE]
  /\ UNCHANGED <<registryVars, eventVars, deviceVars, client, status, surfaced, clientVars>>
  /\ UNCHANGED <<submitVars, readyVars, cmdVars>>

\* The catch and finally blocks of connect() for call k failing with err.
ConnectRejected(k, err) ==
  [connCalls EXCEPT ![k].pc = "done", ![k].outcome = "rejected",
                    ![k].error = err]

\* EufySecurity.initialize resolves: this.client is the new client,
\* setupEventHandlers() attaches the manager's handlers to it, the connect
\* timer is armed, the two once-listeners are registered and
\* client.connect() is called.
initializeResolves(k) ==
  /\ connCalls[k].pc = "init"
  /\ nClients < MaxClients
  /\ nClients' = nClients + 1
  /\ LET s == connCalls[k].sess
         c == nClients + 1
     IN /\ client' = [client EXCEPT ![s] = c]
        /\ clients' = [clients EXCEPT ![c] =
              [FreeClient EXCEPT !.owner = s, !.phase = "login",
                                 !.onceConnect = k, !.onceError = k]]
        /\ connCalls' = [connCalls EXCEPT ![k].pc = "wait",
                                          ![k].timer = "armed", ![k].cl = c]
  /\ UNCHANGED <<registryVars, eventVars, deviceVars, status, connecting, surfaced, nConnect>>
  /\ UNCHANGED <<submitVars, readyVars, cmdVars>>

\* EufySecurity.initialize rejects: catch records the error, finally
\* resets `connecting`.
initializeRejects(k) ==
  /\ connCalls[k].pc = "init"
  /\ LET s == connCalls[k].sess
     IN /\ status' = [status EXCEPT ![s].error = ErrLibrary]
        /\ connecting' = [connecting EXCEPT ![s] = FALSE]
        /\ connCalls' = ConnectRejected(k, ErrLibrary)
  /\ UNCHANGED <<registryVars, eventVars, deviceVars, client, surfaced, clientVars, nConnect>>
  /\ UNCHANGED <<submitVars, readyVars, cmdVars>>

\* A connect timer whose rejection is not followed by the `finally`:
\* `connecting` stays as it is.
connectTimeoutKeepsFlag(k) ==
  /\ connCalls[k].timer = "armed"
  /\ LET s == connCalls[k].sess
     IN IF Waiting(k)
        THEN /\ status' = [status EXCEPT ![s].error = ErrConnectionTimeout]
             /\ connCalls' = [ConnectRejected(k, ErrConnectionTimeout)
                                EXCEPT ![k].timer = "fired"]
             /\ UNCHANGED connecting
        ELSE /\ connCalls' = [connCalls EXCEPT ![k].timer = "fired"]
             /\ UNCHANGED <<status, connecting>>
  /\ UNCHANGED <<registryVars, eventVars, deviceVars, client, surfaced, clientVars, nConnect>>
  /\ UNCHANGED <<submitVars, readyVars, cmdVars>>

\* The connect timer of call k fires after 30 s: reject("Connection
\* timeout"), which does nothing once the promise is settled.
connectTimeout(k) ==
  /\ connCalls[k].timer = "armed"
  /\ LET s == connCalls[k].sess
     IN IF Waiting(k)
        THEN /\ status' = [status EXCEPT ![s].error = ErrConnectionTimeout]
             /\ connecting' = [connecting EXCEPT ![s] = FALSE]
             /\ connCalls' = [ConnectRejected(k, ErrConnectionTimeout)
                                EXCEPT ![k].timer = "fired"]
        ELSE /\ connCalls' = [connCalls EXCEPT ![k].timer = "fired"]
             /\ UNCHANGED <<status, connecting>>
  /\ UNCHANGED <<registryVars, eventVars, deviceVars, client, surfaced, clientVars, nConnect>>
  /\ UNCHANGED <<submitVars, readyVars, cmdVars>>

\* The promise of the client.connect() that call k made rejects:
\* `.catch(reject)`, which leaves the timer armed.
clientConnectRejects(k) ==
  /\ Waiting(k)
  /\ clients[connCalls[k].cl].phase = "login"
  /\ LET s == connCalls[k].sess
     IN /\ status' = [status EXCEPT ![s].error = ErrLibrary]
        /\ connecting' = [connecting EXCEPT ![s] = FALSE]
        /\ connCalls' = ConnectRejected(k, ErrLibrary)
        /\ clients' = [clients EXCEPT ![connCalls[k].cl].phase = "idle"]
  /\ UNCHANGED <<registryVars, eventVars, deviceVars, client, surfaced, nClients, nConnect>>
  /\ UNCHANGED <<submitVars, readyVars, cmdVars>>

\* ------------------------------------------------- connection events

\* The client raises "connect": the handler of setupEventHandlers sets the
\* status, then the once-listener of connect() clears the timer, sets the
\* status and resolves; a connect() that was waiting returns and its
\* finally resets `connecting`.
ConnectSignal(c, ph) ==
  /\ LET s == clients[c].owner
         k == clients[c].onceConnect
     IN /\ status' = [status EXCEPT ![s].cloudConnected = TRUE,
                                    ![s].connected = TRUE]
        /\ clients' = [clients EXCEPT ![c].phase = ph,
                                      ![c].onceConnect = 0]
        /\ IF k # 0
           THEN connCalls' = [connCalls EXCEPT
                  ![k].timer = ClearedTimer(@),
                  ![k].pc = IF Waiting(k) THEN "done" ELSE @,
                  ![k].outcome = IF Waiting(k) THEN "resolved" ELSE @]
           ELSE UNCHANGED connCalls
        /\ connecting' = IF Waiting(k) THEN [connecting EXCEPT ![s] = FALSE]
                         ELSE connecting
  /\ UNCHANGED <<registryVars, eventVars, deviceVars, client, surfaced, nClients, nConnect>>
  /\ UNCHANGED <<submitVars, readyVars, cmdVars>>

\* A client that is logging in raises "connect".
onConnect(c) ==
  /\ clients[c].phase = "login"
  /\ ConnectSignal(c, "connected")

\* A client that close() has closed raises a late "connect": the handlers
\* are still attached to it.
onLateConnect(c) ==
  /\ clients[c].phase = "closed"
  /\ ConnectSignal(c, "closed")

\* The client raises "connection error": only the once-listener of
\* connect() listens; it clears the timer and rejects with the error.
onConnectionError(c) ==
  /\ clients[c].phase = "login"
  /\ LET s == clients[c].owner
         k == clients[c].onceError
     IN /\ clients' = [clients EXCEPT ![c].phase = "idle", ![c].onceError = 0]
        /\ IF Waiting(k)
           THEN /\ status' = [status EXCEPT ![s].error = ErrLibrary]
                /\ connecting' = [connecting EXCEPT ![s] = FALSE]
                /\ connCalls' = [ConnectRejected(k, ErrLibrary)
                                   EXCEPT ![k].timer = ClearedTimer(@)]
           ELSE /\ connCalls' = IF k # 0
                                THEN [connCalls EXCEPT ![k].timer = ClearedTimer(@)]
                                ELSE connCalls
                /\ UNCHANGED <<status, connecting>>
  /\ UNCHANGED <<registryVars, eventVars, deviceVars, client, surfaced, nClients, nConnect>>
  /\ UNCHANGED <<submitVars, readyVars, cmdVars>>

\* The client raises "close" (the cloud connection is lost).
onClose(c) ==
  /\ clients[c].phase = "connected"
  /\ LET s == clients[c].owner
     IN status' = [status EXCEPT ![s].connected = FALSE,
                                 ![s].cloudConnected = FALSE]
  /\ clients' = [clients EXCEPT ![c].phase = "idle", ![c].push = FALSE]
  /\ UNCHANGED <<registryVars, eventVars, deviceVars, client, connecting, surfaced, nClients>>
  /\ UNCHANGED <<connectVars, submitVars, readyVars, cmdVars>>

\* The client raises "push connect".
onPushConnect(c) ==
  /\ clients[c].phase = "connected"
  /\ ~clients[c].push
  /\ status' = [status EXCEPT ![clients[c].owner].pushConnected = TRUE]
  /\ clients' = [clients EXCEPT ![c].push = TRUE]
  /\ UNCHANGED <<registryVars, eventVars, deviceVars, client, connecting, surfaced, nClients>>
  /\ UNCHANGED <<connectVars, submitVars, readyVars, cmdVars>>

\* The client raises "push close".
onPushClose(c) ==
  /\ clients[c].phase = "connected"
  /\ clients[c].push
  /\ status' = [status EXCEPT ![clients[c].owner].pushConnected = FALSE]
  /\ clients' = [clients EXCEPT ![c].push = FALSE]
  /\ UNCHANGED <<registryVars, eventVars, deviceVars, client, connecting, surfaced, nClients>>
  /\ UNCHANGED <<connectVars, submitVars, readyVars, cmdVars>>

\* The client raises "tfa request" or "captcha request" in place of
\* "connect": the manager emits tfaRequired / captchaRequired and changes
\* nothing of its own; the connect timer stays armed.
ChallengeKinds == {"tfa", "captcha"}

onChallengeRequest(c, kind) ==
  /\ clients[c].phase = "login"
  /\ clients' = [clients EXCEPT ![c].phase = kind]
  /\ surfaced' = [surfaced EXCEPT ![clients[c].owner] = kind]
  /\ UNCHANGED <<registryVars, eventVars, deviceVars, client, status, connecting, nClients>>
  /\ UNCHANGED <<connectVars, submitVars, readyVars, cmdVars>>

\* ----------------------------------------------- challenge responses

\* What the library does with a connect({verifyCode}) or connect({captcha})
\* it is handed: a client that is not logged in and not logging in starts
\* a login with it.
Forwarded(c) ==
  [clients EXCEPT ![c].phase =
      IF @ \in {"tfa", "captcha", "idle"} THEN "login" ELSE @]

\* The challenge the library has raised on client c and not been answered.
PendingChallenge(c) ==
  IF clients[c].phase \in ChallengeKinds THEN clients[c].phase ELSE "none"

\* connectWith2FA(code) / connectWithCaptcha(id, code), up to the await:
\* throws without a client, else hands the solution to client.connect().
submit(s, kind) ==
  /\ s \in Created
  /\ nSubmit < MaxSubmitCalls
  /\ nSubmit' = nSubmit + 1
  /\ IF client[s] = 0
     THEN /\ subCalls' = [subCalls EXCEPT ![nSubmit + 1] =
                 [FreeSubmit EXCEPT !.sess = s, !.kind = kind, !.pc = "done",
                                    !.outcome = "rejected",
                                    !.error = ErrClientNotInitialized]]
          /\ UNCHANGED clients
     ELSE /\ subCalls' = [subCalls EXCEPT ![nSubmit + 1] =
                 [FreeSubmit EXCEPT !.sess = s, !.kind = kind, !.pc = "wait",
                                    !.cl = client[s],
                                    !.pending = PendingChallenge(client[s]),
                                    !.forwarded = TRUE]]
          /\ clients' = Forwarded(client[s])
  /\ UNCHANGED <<registryVars, eventVars, deviceVars, client, status, connecting, surfaced, nClients>>
  /\ UNCHANGED <<connectVars, readyVars, cmdVars>>

\* The client.connect() promise a challenge response awaits settles.
submitSettles(j, ok) ==
  /\ subCalls[j].pc = "wait"
  /\ clients[subCalls[j].cl].phase # "login"
  /\ subCalls' = [subCalls EXCEPT ![j].pc = "done",
                    ![j].outcome = IF ok THEN "resolved" ELSE "rejected",
                    ![j].error = IF ok THEN NoError ELSE ErrLibrary]
  /\ UNCHANGED <<registryVars, eventVars, deviceVars, client, status, connecting, surfaced>>
  /\ UNCHANGED <<clientVars, connectVars, nSubmit, readyVars, cmdVars>>

\* ---------------------------------------------------------- commands
\* (the part of setSnooze() that runs once its waitForStation() resolved)

\* setSnooze() call m registers its result listener on this.client, if
\* there is one, and station.snooze() sends the command: the station of
\* the client that was looked up answers later if its link is up.
DispatchClients(cls, m) ==
  LET s == cmdCalls[m].sess
      tgt == cmdCalls[m].cl
      listening == IF client[s] # 0
                   THEN [cls EXCEPT ![client[s]].listeners = @ \cup {m}]
                   ELSE cls
  IN IF StationOf(cmdCalls[m].device) \in listening[tgt].p2p
     THEN [listening EXCEPT ![tgt].due = Append(@, m)]
     ELSE listening

\* setSnooze() call m arms its 10 s timer and awaits the result.
DispatchCmds(m) ==
  [cmdCalls EXCEPT ![m].pc = "result", ![m].timer = "armed"]

\* ------------------------------------- eufy-device node: after the await
\* (the handler of eufy-device.ts from the await of its switch case to its
\* end: it is the continuation of the promise of the manager method, and
\* runs in the microtasks of the callback that settles that promise)

\* The manager methods that write: like setSnooze, their promise resolves
\* with a boolean, which the handler takes as `success`.
Setters ==
  {"setDeviceProperty", "setStationProperty", "panAndTilt",
   "setPanAndTiltRotationSpeed"}

\* How the call that the handler of an input awaits stands: the
\* setSnooze() call, as the calls stand in cmds, or the call of another
\* method.
Settled(call, cmds) ==
  IF call.cmd # 0
  THEN [outcome |-> cmds[call.cmd].outcome,
        error |-> cmds[call.cmd].error,
        success |-> cmds[call.cmd].success,
        value |-> JsUndefined]
  ELSE [outcome |-> call.call.outcome,
        error |-> call.call.error,
        success |-> call.call.success,
        value |-> call.call.value]

\* `success` of the try block: what setSnooze or a method that writes
\* resolved with, and true for a read.
SuccessOf(call, ret) ==
  IF call.cmd # 0 \/ call.call.method \in Setters THEN ret.success ELSE TRUE

\* `result` once the awaited call has resolved with ret.
FinalResult(result, ret) ==
  CASE result.kind \in {"properties", "property"} ->
         [result EXCEPT !.value = ret.value]
    [] result.kind \in {"set", "panTilt", "speed"} ->
         [result EXCEPT !.success = ret.success]
    [] OTHER -> result

\* The output message of input i: that of the catch block if err is an
\* error, else that of the try block.
Output(i, action, targetType, target, success, result, err) ==
  [input |-> i,
   success |-> IF err = NoError THEN success ELSE FALSE,
   action |-> action,
   device |-> IF targetType = "device" THEN target ELSE Undefined,
   station |-> IF targetType = "station" THEN target ELSE Undefined,
   target |-> target,
   targetType |-> targetType,
   result |-> IF err = NoError THEN result ELSE NoResult,
   error |-> err]

\* A catch block that reports the error with done() and sends nothing.
HandledSilently(call, err) ==
  [call EXCEPT !.pc = "done",
               !.sends = IF err = NoError THEN 1 ELSE 0,
               !.reported = err]

\* The handler is done with an input: the message was sent and done() was
\* called, with the error if there is one.
Handled(call, err) ==
  [call EXCEPT !.pc = "done", !.sends = 1, !.reported = err]

\* The handler of an input whose awaited call has settled with ret, at
\* its end.
Resumed(call, ret) ==
  Handled(call, IF ret.outcome = "rejected" THEN ret.error ELSE NoError)

\* The message it has sent: { success, result } of the try block if the
\* call resolved, the error of the catch block if it rejected.
ResumedOutput(i, call, ret) ==
  Output(i, call.action, call.targetType, call.target, SuccessOf(call, ret),
         FinalResult(call.result, ret),
         IF ret.outcome = "rejected" THEN ret.error ELSE NoError)

\* The inputs whose handler awaits a setSnooze() call that this step
\* settles.
Resuming ==
  {i \in InputIds : /\ deviceCalls[i].pc = "await"
                    /\ deviceCalls[i].cmd # 0
                    /\ cmdCalls'[deviceCalls[i].cmd].outcome # "pending"}

\* The place of setSnooze() call m among the calls that registered their
\* result listener, 0 if it did not: listeners run, and their promises
\* are resolved, in the order they were registered in.
Position(m) ==
  IF \E k \in 1..Len(dispatched) : dispatched[k] = m
  THEN CHOOSE k \in 1..Len(dispatched) : dispatched[k] = m
  ELSE 0

\* The input of Resuming whose handler is resumed last.
LastResuming ==
  CHOOSE i \in Resuming :
    \A j \in Resuming \ {i} :
      \/ Position(deviceCalls[j].cmd) < Position(deviceCalls[i].cmd)
      \/ /\ Position(deviceCalls[j].cmd) = Position(deviceCalls[i].cmd)
         /\ j < i

\* What a step that settles setSnooze() calls does to the eufy-device
\* nodes, after cmdCalls': the handlers that await these calls run to
\* their end, each sending its message and calling done().
deviceResume ==
  /\ deviceCalls' = [i \in InputIds |->
        IF i \in Resuming
        THEN Resumed(deviceCalls[i], Settled(deviceCalls[i], cmdCalls'))
        ELSE deviceCalls[i]]
  /\ lastOutput' = IF Resuming = {} THEN lastOutput
                   ELSE ResumedOutput(LastResuming, deviceCalls[LastResuming],
                          Settled(deviceCalls[LastResuming], cmdCalls'))
  /\ UNCHANGED nInputs

\* ---------------------------------------------------------- readiness

StationInfo(st) == [serial |-> st, name |-> st, p2pConnected |-> TRUE]

\* findIndex: the first index of serial st in the list, 0 when absent.
FindIndex(list, st) ==
  IF \E i \in 1..Len(list) : list[i].serial = st
  THEN CHOOSE i \in 1..Len(list) :
         /\ list[i].serial = st
         /\ \A j \in 1..(i - 1) : list[j].serial # st
  ELSE 0

\* A "station connect" that pushes an entry whether or not there is one.
StationPushed(list, st) == Append(list, StationInfo(st))

\* "station connect": the entry of the station is replaced, or pushed.
StationConnected(list, st) ==
  IF FindIndex(list, st) > 0
  THEN [list EXCEPT ![FindIndex(list, st)] = StationInfo(st)]
  ELSE Append(list, StationInfo(st))

\* A "station close" that marks every entry of the list.
StationClosedAll(list, st) ==
  [i \in 1..Len(list) |-> [list[i] EXCEPT !.p2pConnected = FALSE]]

\* "station close": the entry of the station, if any, is marked.
StationClosed(list, st) ==
  IF FindIndex(list, st) > 0
  THEN [list EXCEPT ![FindIndex(list, st)].p2pConnected = FALSE]
  ELSE list

\* waitForStation(serial) up to `await this.client.getStation(serial)`,
\* called by cmd (a setSnooze() call, 0 for a caller outside).
StartWait(s, st, cmd) ==
  IF client[s] = 0
  THEN [FreeWait EXCEPT !.sess = s, !.serial = st, !.cmd = cmd, !.pc = "done",
                        !.outcome = "rejected", !.error = ErrClientNotConnected]
  ELSE [FreeWait EXCEPT !.sess = s, !.serial = st, !.cmd = cmd,
                        !.pc = "lookup", !.cl = client[s]]

waitForStation(s, st) ==
  /\ s \in Created
  /\ nWait < MaxWaitCalls
  /\ nWait' = nWait + 1
  /\ waitCalls' = [waitCalls EXCEPT ![nWait + 1] = StartWait(s, st, 0)]
  /\ UNCHANGED <<registryVars, eventVars, deviceVars, client, status, connecting, surfaced>>
  /\ UNCHANGED <<clientVars, connectVars, submitVars, stationReadyPromises, cmdVars>>

\* The Map.set of waitForStation: the waiter becomes the entry of its serial.
Registered(w) ==
  [stationReadyPromises EXCEPT ![waitCalls[w].sess][waitCalls[w].serial] = w]

\* A timeout that rejects and leaves the Map as it is.
KeptEntry(w) == stationReadyPromises

\* A timeout that clears the whole Map of its manager.
UnregisteredAll(w) ==
  [stationReadyPromises EXCEPT ![waitCalls[w].sess] = [st \in Stations |-> 0]]

\* The Map.delete of the waiter's timeout: the entry of its serial goes,
\* whichever waiter it holds.
Unregistered(w) ==
  [stationReadyPromises EXCEPT ![waitCalls[w].sess][waitCalls[w].serial] = 0]

\* waitForStation that registers a waiter without looking at
\* station.isConnected().
waitLookupRegisters(w) ==
  /\ waitCalls[w].pc = "lookup"
  /\ waitCalls' = [waitCalls EXCEPT ![w].pc = "waiting", ![w].timer = "armed"]
  /\ stationReadyPromises' = Registered(w)
  /\ UNCHANGED <<cmdCalls, clients, dispatched>>
  /\ UNCHANGED <<registryVars, eventVars, deviceVars, client, status, connecting, surfaced>>
  /\ UNCHANGED <<nClients, connectVars, submitVars, nWait, nCmd>>

\* waitForStation that returns without looking at station.isConnected().
waitLookupUnchecked(w) ==
  /\ waitCalls[w].pc = "lookup"
  /\ LET m == waitCalls[w].cmd
     IN /\ waitCalls' = [waitCalls EXCEPT ![w].pc = "done",
                                          ![w].outcome = "resolved"]
        /\ cmdCalls' = IF m # 0 THEN DispatchCmds(m) ELSE cmdCalls
        /\ clients' = IF m # 0 THEN DispatchClients(clients, m) ELSE clients
        /\ dispatched' = IF m # 0 THEN Append(dispatched, m) ELSE dispatched
  /\ UNCHANGED <<registryVars, eventVars, deviceVars, client, status, connecting, surfaced>>
  /\ UNCHANGED <<nClients, connectVars, submitVars, stationReadyPromises, nWait, nCmd>>

\* getStation resolves in waitForStation call w: return if the station is
\* connected, else arm the timer and register the waiter.
waitLookup(w) ==
  /\ waitCalls[w].pc = "lookup"
  /\ LET m == waitCalls[w].cmd
     IN IF waitCalls[w].serial \in clients[waitCalls[w].cl].p2p
        THEN /\ waitCalls' = [waitCalls EXCEPT ![w].pc = "done",
                                               ![w].outcome = "resolved"]
             /\ cmdCalls' = IF m # 0 THEN DispatchCmds(m) ELSE cmdCalls
             /\ clients' = IF m # 0 THEN DispatchClients(clients, m) ELSE clients
             /\ dispatched' = IF m # 0 THEN Append(dispatched, m) ELSE dispatched
             /\ UNCHANGED stationReadyPromises
        ELSE /\ waitCalls' = [waitCalls EXCEPT ![w].pc = "waiting",
                                               ![w].timer = "armed"]
             /\ stationReadyPromises' = Registered(w)
             /\ UNCHANGED <<cmdCalls, clients, dispatched>>
  /\ UNCHANGED <<registryVars, eventVars, deviceVars, client, status, connecting, surfaced, nClients>>
  /\ UNCHANGED <<connectVars, submitVars, nWait, nCmd>>

\* The timer of waiter w fires: delete the entry of its serial, reject.
\* A setSnooze() awaiting the waiter is rejected with the same error.
waitTimeout(w) ==
  /\ waitCalls[w].timer = "armed"
  /\ waitCalls' = [waitCalls EXCEPT ![w].pc = "done", ![w].timer = "fired",
                      ![w].outcome = "rejected", ![w].error = ErrStationTimeout]
  /\ stationReadyPromises' = Unregistered(w)
  /\ cmdCalls' = IF waitCalls[w].cmd # 0
                 THEN [cmdCalls EXCEPT ![waitCalls[w].cmd].pc = "done",
                          ![waitCalls[w].cmd].outcome = "rejected",
                          ![waitCalls[w].cmd].error = ErrStationTimeout]
                 ELSE cmdCalls
  /\ deviceResume
  /\ UNCHANGED <<registryVars, eventVars, client, status, connecting, surfaced>>
  /\ UNCHANGED <<clientVars, connectVars, submitVars, nWait, nCmd, dispatched>>

\* The client raises "station connect": the status entry is written and
\* the waiter registered for the serial, if any, is resolved (its timer
\* cleared) and its entry deleted.
StationConnectSignal(c, st) ==
  /\ LET s == clients[c].owner
         w == stationReadyPromises[s][st]
         m == IF w # 0 THEN waitCalls[w].cmd ELSE 0
         linked == [clients EXCEPT ![c].p2p = @ \cup {st}]
     IN /\ status' = [status EXCEPT ![s].stations = StationConnected(@, st)]
        /\ stationReadyPromises' = [stationReadyPromises EXCEPT ![s][st] = 0]
        /\ waitCalls' = IF w # 0
                        THEN [waitCalls EXCEPT ![w].pc = "done",
                                ![w].outcome = "resolved",
                                ![w].timer = ClearedTimer(@)]
                        ELSE waitCalls
        /\ cmdCalls' = IF m # 0 THEN DispatchCmds(m) ELSE cmdCalls
        /\ clients' = IF m # 0 THEN DispatchClients(linked, m) ELSE linked
        /\ dispatched' = IF m # 0 THEN Append(dispatched, m) ELSE dispatched
  /\ UNCHANGED <<registryVars, eventVars, deviceVars, client, connecting, surfaced, nClients>>
  /\ UNCHANGED <<connectVars, submitVars, nWait, nCmd>>

\* A connected client raises "station connect" for a station whose link
\* was not up.
onStationConnect(c, st) ==
  /\ clients[c].phase = "connected"
  /\ st \notin clients[c].p2p
  /\ StationConnectSignal(c, st)

\* A client that close() has closed raises a late "station connect".
onLateStationConnect(c, st) ==
  /\ clients[c].phase = "closed"
  /\ st \notin clients[c].p2p
  /\ StationConnectSignal(c, st)

\* The client raises "station close", for a station whose link was up or
\* for one whose link never came up.
onStationClose(c, st) ==
  /\ clients[c].phase # "closed"
  /\ clients[c].phase # "none"
  /\ status' = [status EXCEPT ![clients[c].owner].stations = StationClosed(@, st)]
  /\ clients' = [clients EXCEPT ![c].p2p = @ \ {st}]
  /\ UNCHANGED <<registryVars, eventVars, deviceVars, client, connecting, surfaced, nClients>>
  /\ UNCHANGED <<connectVars, submitVars, readyVars, cmdVars>>

\* ---------------------------------------------------------- setSnooze

\* setSnooze(device, seconds) up to `await this.client.getDevice(...)`.
StartCmd(s, d) ==
  IF client[s] = 0
  THEN [FreeCmd EXCEPT !.sess = s, !.device = d, !.pc = "done",
                       !.outcome = "rejected", !.error = ErrClientNotConnected]
  ELSE [FreeCmd EXCEPT !.sess = s, !.device = d, !.pc = "getDevice"]

setSnooze(s, d) ==
  /\ s \in Created
  /\ nCmd < MaxCmdCalls
  /\ nCmd' = nCmd + 1
  /\ cmdCalls' = [cmdCalls EXCEPT ![nCmd + 1] = StartCmd(s, d)]
  /\ UNCHANGED <<registryVars, eventVars, deviceVars, client, status, connecting, surfaced>>
  /\ UNCHANGED <<clientVars, connectVars, submitVars, readyVars, dispatched>>

\* getDevice resolves: `this.client.getStation(...)` is called on the
\* client the manager holds now, and throws if close() dropped it.
cmdDevice(m) ==
  /\ cmdCalls[m].pc = "getDevice"
  /\ cmdCalls' = [cmdCalls EXCEPT ![m] =
        IF client[cmdCalls[m].sess] = 0
        THEN [@ EXCEPT !.pc = "done", !.outcome = "rejected",
                       !.error = ErrNullClient]
        ELSE [@ EXCEPT !.pc = "getStation", !.cl = client[cmdCalls[m].sess]]]
  /\ deviceResume
  /\ UNCHANGED <<registryVars, eventVars, client, status, connecting, surfaced>>
  /\ UNCHANGED <<clientVars, connectVars, submitVars, readyVars, nCmd, dispatched>>

\* getStation resolves: setSnooze calls this.waitForStation(serial) and
\* awaits it.
cmdStation(m) ==
  /\ cmdCalls[m].pc = "getStation"
  /\ nWait < MaxWaitCalls
  /\ nWait' = nWait + 1
  /\ LET s == cmdCalls[m].sess
         w == StartWait(s, StationOf(cmdCalls[m].device), m)
     IN /\ waitCalls' = [waitCalls EXCEPT ![nWait + 1] = w]
        /\ cmdCalls' = [cmdCalls EXCEPT ![m] =
              IF w.pc = "done"
              THEN [@ EXCEPT !.pc = "done", !.outcome = "rejected",
                             !.error = w.error]
              ELSE [@ EXCEPT !.pc = "waitStation"]]
  /\ deviceResume
  /\ UNCHANGED <<registryVars, eventVars, client, status, connecting, surfaced>>
  /\ UNCHANGED <<clientVars, connectVars, submitVars, stationReadyPromises>>
  /\ UNCHANGED <<nCmd, dispatched>>

ReturnCodes == {0, 1}

\* The listeners of client c after each of them has run
\* `this.client?.off(...)`: one whose manager holds another client, or
\* none, stays registered.
AfterOff(c) ==
  {m \in clients[c].listeners : client[cmdCalls[m].sess] # c}

\* The client raises "station command result" for the oldest command its
\* stations were sent: every registered listener clears its timer, removes
\* itself and resolves with return_code === 0.
onCommandResult(c, code) ==
  /\ clients[c].phase # "closed"
  /\ clients[c].due # << >>
  /\ cmdCalls' = [m \in CmdIds |->
        IF m \in clients[c].listeners
        THEN [cmdCalls[m] EXCEPT
                !.timer = ClearedTimer(@),
                !.pc = "done",
                !.outcome = IF cmdCalls[m].pc = "result" THEN "resolved" ELSE @,
                !.success = IF cmdCalls[m].pc = "result" THEN code = 0 ELSE @,
                !.by = IF cmdCalls[m].pc = "result" THEN Head(clients[c].due) ELSE @]
        ELSE cmdCalls[m]]
  /\ clients' = [clients EXCEPT ![c].due = Tail(@), ![c].listeners = AfterOff(c)]
  /\ deviceResume
  /\ UNCHANGED <<registryVars, eventVars, client, status, connecting, surfaced, nClients>>
  /\ UNCHANGED <<connectVars, submitVars, readyVars, nCmd, dispatched>>

\* A command timer that fires without resolving the call.
cmdTimeoutSilent(m) ==
  /\ cmdCalls[m].timer = "armed"
  /\ cmdCalls' = [cmdCalls EXCEPT ![m].timer = "fired"]
  /\ UNCHANGED clients
  /\ UNCHANGED <<registryVars, eventVars, deviceVars, client, status, connecting, surfaced, nClients>>
  /\ UNCHANGED <<connectVars, submitVars, readyVars, nCmd, dispatched>>

\* The timer of setSnooze() call m fires after 10 s: the listener is
\* removed from this.client and the call resolves false.
cmdTimeout(m) ==
  /\ cmdCalls[m].timer = "armed"
  /\ cmdCalls' = [cmdCalls EXCEPT ![m].timer = "fired", ![m].pc = "done",
        ![m].outcome = IF cmdCalls[m].pc = "result" THEN "resolved" ELSE @,
        ![m].success = IF cmdCalls[m].pc = "result" THEN FALSE ELSE @]
  /\ clients' = IF client[cmdCalls[m].sess] # 0
                THEN [clients EXCEPT ![client[cmdCalls[m].sess]].listeners = @ \ {m}]
                ELSE clients
  /\ deviceResume
  /\ UNCHANGED <<registryVars, eventVars, client, status, connecting, surfaced, nClients>>
  /\ UNCHANGED <<connectVars, submitVars, readyVars, nCmd, dispatched>>

\* ------------------------------------------------------ eufy-event node

\* A string that `||` and `if` take as true.
Truthy(str) == str # "" /\ str # Undefined

\* Array.prototype.includes.
Includes(list, e) == \E i \in 1..Len(list) : list[i] = e

\* `this.runtimeFilter.device || this.device`
FilterDevice(node) ==
  IF Truthy(node.runtimeFilter.device) THEN node.runtimeFilter.device
  ELSE node.device

\* `this.runtimeFilter.events || this.events`: an array, empty or not, is
\* taken; undefined is not.
FilterEvents(node) ==
  IF node.runtimeFilter.hasEvents THEN node.runtimeFilter.events
  ELSE node.events

\* handleEvent that forwards whatever it is handed.
PassesAll(node, ev) == TRUE

\* handleEvent gets past its two early returns.
Passes(node, ev) ==
  /\ ~(Truthy(FilterDevice(node)) /\ ev.device # FilterDevice(node))
  /\ ~(Len(FilterEvents(node)) > 0 /\ ~Includes(FilterEvents(node), ev.event))

\* The eufy-config constructor for a configuration without username or
\* password: `this.client` stays null and no manager is made.
createConfigNode(cfg) ==
  /\ instances[cfg] = 0
  /\ cfg \notin unconfigured
  /\ unconfigured' = unconfigured \cup {cfg}
  /\ UNCHANGED <<instances, nSessions, configOf, released, returned>>
  /\ UNCHANGED <<eventVars, deviceVars, client, status, connecting, surfaced>>
  /\ UNCHANGED <<clientVars, connectVars, submitVars, readyVars, cmdVars>>

\* Red.nodes.getNode(config.config): whether there is a config node.
HasConfigNode(cfg) == instances[cfg] # 0 \/ cfg \in unconfigured

\* `this.configNode.client` of a node: the manager its config node holds,
\* null (0) once the config node's "close" handler has released it.
ClientOf(node) ==
  IF node.configNode \in released THEN 0 ELSE node.configNode

\* The eufy-event constructor: the fields are set from the configuration;
\* without a config node it returns early, and with a config node that
\* has a client handleEvent is registered on that manager.
createEventNode(cfg, nc) ==
  /\ nNodes < MaxNodes
  /\ nNodes' = nNodes + 1
  /\ eventNodes' = [eventNodes EXCEPT ![nNodes + 1] =
        [FreeNode EXCEPT !.config = cfg, !.configured = HasConfigNode(cfg),
                         !.configNode = instances[cfg],
                         !.device = nc.device, !.events = nc.events]]
  /\ deviceEventListeners' =
        IF instances[cfg] # 0
        THEN [deviceEventListeners EXCEPT ![instances[cfg]] = Append(@, nNodes + 1)]
        ELSE deviceEventListeners
  /\ UNCHANGED lastEmit
  /\ UNCHANGED <<registryVars, deviceVars, client, status, connecting, surfaced>>
  /\ UNCHANGED <<clientVars, connectVars, submitVars, readyVars, cmdVars>>

\* EventEmitter.off(name, listener) for the listener of node n.
Without(list, n) == SelectSeq(list, LAMBDA m : m # n)

\* The "close" handler of eufy-event node n: handleEvent is taken off the
\* manager, if the config node still holds one.
closeEventNode(n) ==
  /\ n \in 1..nNodes
  /\ eventNodes[n].configured
  /\ deviceEventListeners' =
        IF ClientOf(eventNodes[n]) # 0
        THEN [deviceEventListeners EXCEPT ![ClientOf(eventNodes[n])] = Without(@, n)]
        ELSE deviceEventListeners
  /\ UNCHANGED <<nNodes, eventNodes, lastEmit>>
  /\ UNCHANGED <<registryVars, deviceVars, client, status, connecting, surfaced>>
  /\ UNCHANGED <<clientVars, connectVars, submitVars, readyVars, cmdVars>>

\* What an input message with payload p makes of a runtime filter.
Updated(filter, p) ==
  IF ~p.defined THEN filter
  ELSE [device |-> IF p.hasDevice
                   THEN (IF Truthy(p.device) THEN p.device ELSE Undefined)
                   ELSE filter.device,
        hasEvents |-> IF p.hasEvents THEN TRUE ELSE filter.hasEvents,
        events |-> IF p.hasEvents THEN p.events ELSE filter.events]

\* The "input" handler of eufy-event node n for a message with payload p;
\* a node constructed without a config node has no such handler.
input(n, p) ==
  /\ n \in 1..nNodes
  /\ eventNodes[n].configured
  /\ eventNodes' = [eventNodes EXCEPT ![n].runtimeFilter = Updated(@, p)]
  /\ UNCHANGED <<nNodes, deviceEventListeners, lastEmit>>
  /\ UNCHANGED <<registryVars, deviceVars, client, status, connecting, surfaced>>
  /\ UNCHANGED <<clientVars, connectVars, submitVars, readyVars, cmdVars>>

\* EventEmitter.emit("deviceEvent", ev) on the listeners in `list`, in the
\* order they were registered: each handleEvent returns early, or sends
\* its message and then sets its status.  The nodes in `badSend` are those
\* whose this.send() throws, the nodes in `badStatus` those whose
\* this.status() throws (their message is sent by then); a listener that
\* throws ends the emit, which throws in turn.  The result lists the nodes
\* that sent the message.
RECURSIVE Emit(_, _, _, _)
Emit(list, ev, badSend, badStatus) ==
  IF list = << >> THEN [sent |-> << >>, threw |-> FALSE]
  ELSE LET n == Head(list)
           rest == Emit(Tail(list), ev, badSend, badStatus)
       IN IF ~Passes(eventNodes[n], ev) THEN rest
          ELSE IF n \in badSend THEN [sent |-> << >>, threw |-> TRUE]
          ELSE IF n \in badStatus THEN [sent |-> <<n>>, threw |-> TRUE]
          ELSE [sent |-> <<n>> \o rest.sent, threw |-> rest.threw]

\* Handlers that emit whatever `state` is, that of motion included.
EmitsAnyState == {"propertyChanged", "motion"}

\* The device signals whose handler emits whatever `state` is.
Stateless == {"propertyChanged"}

\* The `value` the handler of a device signal hands to emitDeviceEvent:
\* { detected: state, person }, { property: name, value }, or `state`
\* itself (written [boolean |-> state]).
Value(type, state, x) ==
  IF type = "personDetected" THEN [detected |-> state, person |-> x.person]
  ELSE IF type = "propertyChanged" THEN [property |-> x.name, value |-> x.value]
  ELSE [boolean |-> state]

\* Client c raises a device signal of the given type for device d: the
\* handler of setupEventHandlers calls emitDeviceEvent if `state` is true,
\* and emitDeviceEvent emits "deviceEvent" on the manager.
DeviceSignal(c, type, d, state, x, badSend, badStatus) ==
  /\ LET s == clients[c].owner
         ev == [event |-> type, device |-> d]
         r == Emit(deviceEventListeners[s], ev, badSend, badStatus)
     IN IF state \/ type \in Stateless
        THEN lastEmit' = [sess |-> s, event |-> type, device |-> d,
                          value |-> Value(type, state, x),
                          sent |-> r.sent, threw |-> r.threw]
        ELSE UNCHANGED lastEmit
  /\ UNCHANGED <<nNodes, eventNodes, deviceEventListeners>>
  /\ UNCHANGED <<registryVars, deviceVars, client, status, connecting, surfaced>>
  /\ UNCHANGED <<clientVars, connectVars, submitVars, readyVars, cmdVars>>

\* A connected client raises the signal.
onDeviceSignalWith(c, type, d, state, x, badSend, badStatus) ==
  /\ clients[c].phase = "connected"
  /\ DeviceSignal(c, type, d, state, x, badSend, badStatus)

\* A client that close() has closed raises a late device signal.
onLateDeviceSignal(c, type, d, state) ==
  /\ clients[c].phase = "closed"
  /\ DeviceSignal(c, type, d, state, PlainArgs, {}, {})

\* The same for a signal whose person, name and value do not matter.
onDeviceSignal(c, type, d, state, badSend, badStatus) ==
  onDeviceSignalWith(c, type, d, state, PlainArgs, badSend, badStatus)

\* ----------------------------------------------------- eufy-device node

\* `payload.targetType || this.targetType`
TargetType(nc, p) ==
  IF Truthy(p.targetType) THEN p.targetType ELSE nc.targetType

\* `payload.device || this.device`
DeviceSerial(nc, p) == IF Truthy(p.device) THEN p.device ELSE nc.device

\* `payload.station || this.station`
StationSerial(nc, p) == IF Truthy(p.station) THEN p.station ELSE nc.station

\* `targetType === "station" ? stationSerial : deviceSerial`
TargetSerial(nc, p) ==
  IF TargetType(nc, p) = "station" THEN StationSerial(nc, p)
  ELSE DeviceSerial(nc, p)

\* `payload.action || this.action`
ActionOf(nc, p) == IF Truthy(p.action) THEN p.action ELSE nc.action

\* `options.duration || 7200`: undefined and 0 are both falsy.
Duration(p) ==
  IF p.options.hasDuration /\ p.options.duration # 0 THEN p.options.duration
  ELSE DefaultSnooze

\* The seconds the handler passes to client.setSnooze().
SnoozeSeconds(nc, p) == IF ActionOf(nc, p) = "snooze" THEN Duration(p) ELSE 0

\* `(options.property as string) || this.property`
PropertyOption(nc, p) ==
  IF Truthy(p.options.property) THEN p.options.property ELSE nc.property

\* `(options.customProperty as string) || this.customProperty`
CustomPropertyOption(nc, p) ==
  IF Truthy(p.options.customProperty) THEN p.options.customProperty
  ELSE nc.customProperty

\* propertyName, after "__CUSTOM__" is replaced by the custom property.
PropertyName(nc, p) ==
  IF PropertyOption(nc, p) = Custom THEN CustomPropertyOption(nc, p)
  ELSE PropertyOption(nc, p)

\* The value the setProperty action makes of this.propertyValue: a
\* boolean, the empty string, a number, or the trimmed string.
ParseValue(str) ==
  LET valueStr == Trim(str)
  IN IF valueStr = "true" THEN JsBool(TRUE)
     ELSE IF valueStr = "false" THEN JsBool(FALSE)
     ELSE IF valueStr = "" THEN JsStr("")
     ELSE IF IsNumber(valueStr) THEN JsNum(NumberOf(valueStr))
     ELSE JsStr(valueStr)

\* propertyValue: options.value, or the value of the node configuration if
\* options.value is undefined and the configuration has one.
PropertyValue(nc, p) ==
  IF p.options.value = JsUndefined /\ Truthy(nc.propertyValue)
  THEN ParseValue(nc.propertyValue)
  ELSE p.options.value

\* `(options.direction as string) || this.panTiltDirection`
Direction(nc, p) ==
  IF Truthy(p.options.direction) THEN p.options.direction
  ELSE nc.panTiltDirection

\* `(options.command as number) || undefined`
Command(p) ==
  IF JsTruthy(p.options.command) THEN p.options.command ELSE JsUndefined

\* speed: options.speed, or the number of this.panTiltSpeed if
\* options.speed is undefined and the configured string is a number.
Speed(nc, p) ==
  IF /\ p.options.speed = JsUndefined
     /\ Truthy(nc.panTiltSpeed)
     /\ IsNumber(Trim(nc.panTiltSpeed))
  THEN JsNum(NumberOf(Trim(nc.panTiltSpeed)))
  ELSE p.options.speed

\* What a case of the switch throws before its await, NoError if nothing.
ThrownByAction(action, nc, p) ==
  LET station == TargetType(nc, p) = "station"
  IN CASE action = "snooze" -> IF station THEN ErrSnoozeStation ELSE NoError
       [] action = "unsnooze" -> IF station THEN ErrUnsnoozeStation ELSE NoError
       [] action = "getProperties" -> NoError
       [] action = "getProperty" ->
            IF ~Truthy(PropertyOption(nc, p)) THEN ErrPropertyName
            ELSE IF ~Truthy(PropertyName(nc, p)) THEN ErrCustomProperty
            ELSE NoError
       [] action = "setProperty" ->
            IF ~Truthy(PropertyOption(nc, p)) THEN ErrPropertyName
            ELSE IF ~Truthy(PropertyName(nc, p)) THEN ErrCustomProperty
            ELSE IF PropertyValue(nc, p) \in {JsUndefined, JsNull}
                 THEN ErrPropertyValue
            ELSE NoError
       [] action = "panTilt" ->
            IF station THEN ErrPanTiltStation
            ELSE IF ~Truthy(Direction(nc, p)) THEN ErrDirection
            ELSE NoError
       [] action = "setPanTiltSpeed" ->
            IF station THEN ErrSpeedStation
            ELSE IF Speed(nc, p) \in {JsUndefined, JsNull} THEN ErrSpeed
            ELSE NoError
       [] OTHER -> ErrUnknownAction(action)

\* What the handler throws before its first await, NoError if nothing:
\* getClient() of a config node that has no client (s = 0) or has released
\* it, the checks of the connection, the target and the action, and the
\* switch.
Thrown(s, nc, p) ==
  IF s = 0 \/ s \in released THEN ErrNotConfigured
  ELSE IF ~status[s].connected THEN ErrNotConnected
  ELSE IF ~Truthy(TargetSerial(nc, p))
       THEN (IF TargetType(nc, p) = "station" THEN ErrNoStation ELSE ErrNoDevice)
  ELSE IF ~Truthy(ActionOf(nc, p)) THEN ErrNoAction
  ELSE ThrownByAction(ActionOf(nc, p), nc, p)

\* The manager method a case of the switch awaits.
Method(action, targetType) ==
  CASE action \in {"snooze", "unsnooze"} -> "setSnooze"
    [] action = "getProperties" ->
         IF targetType = "station" THEN "getStationProperties"
         ELSE "getDeviceProperties"
    [] action = "getProperty" ->
         IF targetType = "station" THEN "getStationProperty"
         ELSE "getDeviceProperty"
    [] action = "setProperty" ->
         IF targetType = "station" THEN "setStationProperty"
         ELSE "setDeviceProperty"
    [] action = "panTilt" -> "panAndTilt"
    [] action = "setPanTiltSpeed" -> "setPanAndTiltRotationSpeed"
    [] OTHER -> "none"

\* The manager methods that read: their promise resolves with what was
\* read.
Getters ==
  {"getDeviceProperties", "getStationProperties", "getDeviceProperty",
   "getStationProperty"}

\* What the library hands back for a read: the properties of a target, or
\* the value of one property.
Properties == [type |-> "object", bool |-> FALSE, num |-> 0, str |-> "battery: 80"]
ValueRead(method) ==
  IF method \in {"getDeviceProperties", "getStationProperties"} THEN Properties
  ELSE JsNum(80)

\* The call of a manager method other than setSnooze: it throws if the
\* manager has no client, so that its promise is rejected, and otherwise
\* awaits the library.
StartCall(s, method) ==
  IF client[s] = 0
  THEN [NoCall EXCEPT !.method = method, !.outcome = "rejected",
                      !.error = ErrClientNotConnected]
  ELSE [NoCall EXCEPT !.method = method, !.outcome = "pending"]

\* `result` as the case of the switch builds it, but for what the awaited
\* call resolves with.
ResultOf(action, nc, p) ==
  CASE action = "snooze" ->
         [NoResult EXCEPT !.present = TRUE, !.kind = "snooze",
                          !.snoozed = TRUE, !.duration = Duration(p)]
    [] action = "unsnooze" ->
         [NoResult EXCEPT !.present = TRUE, !.kind = "unsnooze"]
    [] action = "getProperties" ->
         [NoResult EXCEPT !.present = TRUE, !.kind = "properties"]
    [] action = "getProperty" ->
         [NoResult EXCEPT !.present = TRUE, !.kind = "property",
                          !.property = PropertyName(nc, p)]
    [] action = "setProperty" ->
         [NoResult EXCEPT !.present = TRUE, !.kind = "set",
                          !.property = PropertyName(nc, p),
                          !.value = PropertyValue(nc, p)]
    [] action = "panTilt" ->
         [NoResult EXCEPT !.present = TRUE, !.kind = "panTilt",
                          !.direction = Direction(nc, p),
                          !.command = Command(p)]
    [] action = "setPanTiltSpeed" ->
         [NoResult EXCEPT !.present = TRUE, !.kind = "speed",
                          !.speed = Speed(nc, p)]
    [] OTHER -> NoResult

\* The "input" handler of a eufy-device node with configuration nc, on the
\* config node of manager s (0: a config node without a client), for a
\* message with payload p: up to its first await, which is that of
\* client.setSnooze() or of another manager method, or to the end of the
\* catch block if it throws before; and to its end too if the method
\* throws, so that its promise is rejected when it is awaited.
deviceInput(s, nc, p) ==
  /\ s \in Created \/ (s = 0 /\ unconfigured # {})
  /\ nInputs < MaxInputs
  /\ nInputs' = nInputs + 1
  /\ LET i == nInputs + 1
         err == Thrown(s, nc, p)
         action == ActionOf(nc, p)
         method == Method(action, TargetType(nc, p))
         started == [FreeInput EXCEPT !.sess = s, !.pc = "await",
                       !.action = action,
                       !.targetType = TargetType(nc, p),
                       !.target = TargetSerial(nc, p),
                       !.duration = SnoozeSeconds(nc, p),
                       !.result = ResultOf(action, nc, p)]
         cmds == [cmdCalls EXCEPT ![nCmd + 1] = StartCmd(s, DeviceSerial(nc, p))]
         call == IF method = "setSnooze"
                 THEN [started EXCEPT !.cmd = nCmd + 1]
                 ELSE [started EXCEPT !.call = StartCall(s, method)]
         ret == Settled(call, cmds)
     IN IF err # NoError
        THEN /\ deviceCalls' = [deviceCalls EXCEPT ![i] =
                   Handled([FreeInput EXCEPT !.sess = s], err)]
             /\ lastOutput' = Output(i, action, TargetType(nc, p),
                                     TargetSerial(nc, p), FALSE, NoResult, err)
             /\ UNCHANGED cmdVars
        ELSE /\ IF method = "setSnooze"
                THEN /\ nCmd < MaxCmdCalls
                     /\ nCmd' = nCmd + 1
                     /\ cmdCalls' = cmds
                     /\ UNCHANGED dispatched
                ELSE UNCHANGED cmdVars
             /\ IF ret.outcome = "pending"
                THEN /\ deviceCalls' = [deviceCalls EXCEPT ![i] = call]
                     /\ UNCHANGED lastOutput
                ELSE /\ deviceCalls' = [deviceCalls EXCEPT ![i] = Resumed(call, ret)]
                     /\ lastOutput' = ResumedOutput(i, call, ret)
  /\ UNCHANGED <<registryVars, eventVars, client, status, connecting, surfaced>>
  /\ UNCHANGED <<clientVars, connectVars, submitVars, readyVars>>

\* A pending call of a manager method once the library has settled what
\* it awaits: its promise is rejected with the library's error, or
\* resolved with what was read or, for a write, with the boolean
\* `success`.
CallSettled(call, ok, success) ==
  IF ~ok THEN [call EXCEPT !.outcome = "rejected", !.error = ErrLibrary]
  ELSE IF call.method \in Setters
       THEN [call EXCEPT !.outcome = "resolved", !.success = success]
  ELSE [call EXCEPT !.outcome = "resolved", !.value = ValueRead(call.method)]

\* The call that input i awaits settles as the library settled what the
\* method awaits, and the handler of the input runs to its end.
callSettles(i, ok, success) ==
  LET call == [deviceCalls[i] EXCEPT
                 !.call = CallSettled(deviceCalls[i].call, ok, success)]
      ret == Settled(call, cmdCalls)
  IN /\ deviceCalls' = [deviceCalls EXCEPT ![i] = Resumed(call, ret)]
     /\ lastOutput' = ResumedOutput(i, call, ret)
     /\ UNCHANGED nInputs

\* getDeviceProperties(), which input i awaits: client.getDevice() of the
\* library rejects, or resolves with the device, whose properties are
\* returned to the handler.
getDevicePropertiesSettles(i, ok) ==
  /\ deviceCalls[i].pc = "await"
  /\ deviceCalls[i].call.method = "getDeviceProperties"
  /\ deviceCalls[i].call.outcome = "pending"
  /\ callSettles(i, ok, FALSE)
  /\ UNCHANGED <<registryVars, eventVars, client, status, connecting, surfaced>>
  /\ UNCHANGED <<clientVars, connectVars, submitVars, readyVars, cmdVars>>

\* The manager methods that the node calls to get or set a property of the
\* Device Service Client and to pan and tilt: they are taken to do as
\* getDeviceProperties and setSnooze do, to throw without a client, to
\* await the library and to resolve with what it hands back.
ClientMethods ==
  {"getStationProperties", "getDeviceProperty", "getStationProperty",
   "setDeviceProperty", "setStationProperty", "panAndTilt",
   "setPanAndTiltRotationSpeed"}

\* One of these methods, which input i awaits, settles.
clientMethodSettles(i, ok, success) ==
  /\ deviceCalls[i].pc = "await"
  /\ deviceCalls[i].call.method \in ClientMethods
  /\ deviceCalls[i].call.outcome = "pending"
  /\ callSettles(i, ok, success)
  /\ UNCHANGED <<registryVars, eventVars, client, status, connecting, surfaced>>
  /\ UNCHANGED <<clientVars, connectVars, submitVars, readyVars, cmdVars>>

\* ----------------------------------------------------- specifications

\* The connection lifecycle: connect() calls, what the library answers,
\* the connect timer and close().
Lifecycle ==
  \/ \E s \in SessionIds : connect(s)
  \/ \E k \in ConnectIds : initializeResolves(k)
  \/ \E k \in ConnectIds : initializeRejects(k)
  \/ \E k \in ConnectIds : connectTimeout(k)
  \/ \E k \in ConnectIds : clientConnectRejects(k)
  \/ \E c \in ClientIds : onConnect(c)
  \/ \E c \in ClientIds : onConnectionError(c)
  \/ \E c \in ClientIds : onClose(c)
  \/ \E s \in SessionIds : close(s)

\* The second authentication step.
Challenge ==
  \/ \E c \in ClientIds, kind \in ChallengeKinds : onChallengeRequest(c, kind)
  \/ \E s \in SessionIds, kind \in ChallengeKinds : submit(s, kind)
  \/ \E j \in SubmitIds, ok \in BOOLEAN : submitSettles(j, ok)

\* No connect() has been called on manager s.
NeverConnected(s) == \A k \in ConnectIds : connCalls[k].sess # s

\* One successful connection per manager, without a failure or a loss.
Connection ==
  \/ \E s \in SessionIds : NeverConnected(s) /\ connect(s)
  \/ \E k \in ConnectIds : initializeResolves(k)
  \/ \E c \in ClientIds : onConnect(c)

\* The local links of the stations and the callers that wait for them.
Readiness ==
  \/ \E s \in SessionIds, st \in Stations : waitForStation(s, st)
  \/ \E w \in WaitIds : waitLookup(w)
  \/ \E w \in WaitIds : waitTimeout(w)
  \/ \E c \in ClientIds, st \in Stations : onStationConnect(c, st)
  \/ \E c \in ClientIds, st \in Stations : onStationClose(c, st)

\* The snooze command.
Commands ==
  \/ \E s \in SessionIds, d \in Devices : setSnooze(s, d)
  \/ \E m \in CmdIds : cmdDevice(m)
  \/ \E m \in CmdIds : cmdStation(m)
  \/ \E c \in ClientIds, code \in ReturnCodes : onCommandResult(c, code)
  \/ \E m \in CmdIds : cmdTimeout(m)

\* The manager of one config node: its connection lifecycle.
Next ==
  \/ getInstance("cfgA")
  \/ Lifecycle
  \/ \E c \in ClientIds : onPushConnect(c)
  \/ \E c \in ClientIds : onPushClose(c)

Spec == Init /\ [][Next]_vars

\* The same, where what the manager itself schedules does happen: a
\* pending EufySecurity.initialize() settles and an armed connect timer
\* that is not cleared fires.  What the callers and the library do is
\* left to them.
SpecFair ==
  /\ Spec
  /\ \A k \in ConnectIds : WF_vars(initializeResolves(k) \/ initializeRejects(k))
  /\ \A k \in ConnectIds : WF_vars(connectTimeout(k))

\* The manager of one config node whose login meets a challenge.
NextChallenge ==
  \/ getInstance("cfgA")
  \/ Lifecycle
  \/ Challenge

SpecChallenge == Init /\ [][NextChallenge]_vars

\* The registry: config nodes that come and go, each connecting its manager.
NextRegistry ==
  \/ \E cfg \in ConfigIds : getInstance(cfg)
  \/ \E cfg \in ConfigIds : removeInstance(cfg)
  \/ Connection

SpecRegistry == Init /\ [][NextRegistry]_vars

\* A connected manager and the callers waiting for its stations.
NextReady ==
  \/ getInstance("cfgA")
  \/ Connection
  \/ Readiness

SpecReady == Init /\ [][NextReady]_vars

\* A connected manager and the commands sent through it.
NextCommand ==
  \/ getInstance("cfgA")
  \/ Connection
  \/ \E w \in WaitIds : waitLookup(w)
  \/ \E w \in WaitIds : waitTimeout(w)
  \/ \E c \in ClientIds, st \in Stations : onStationConnect(c, st)
  \/ Commands

SpecCommand == Init /\ [][NextCommand]_vars

\* The same, where an armed command timer that is not cleared fires.
SpecCommandFair ==
  SpecCommand /\ \A m \in CmdIds : WF_vars(cmdTimeout(m))

\* A manager that is closed while calls are pending on it: at most two
\* connect() calls, one waitForStation() from outside and one setSnooze().
NextClose ==
  \/ getInstance("cfgA")
  \/ \E s \in SessionIds : nConnect < 2 /\ connect(s)
  \/ \E k \in ConnectIds : initializeResolves(k)
  \/ \E k \in ConnectIds : connectTimeout(k)
  \/ \E c \in ClientIds : onConnect(c)
  \/ \E c \in ClientIds : onClose(c)
  \/ \E s \in SessionIds : close(s)
  \/ \E s \in SessionIds : nWait = 0 /\ waitForStation(s, "S1")
  \/ \E w \in WaitIds : waitLookup(w)
  \/ \E w \in WaitIds : waitTimeout(w)
  \/ \E c \in ClientIds : onStationConnect(c, "S1")
  \/ \E s \in SessionIds : nCmd = 0 /\ nWait = 1 /\ setSnooze(s, "D1")
  \/ \E m \in CmdIds : cmdDevice(m)
  \/ \E m \in CmdIds : cmdStation(m)
  \/ \E c \in ClientIds, code \in ReturnCodes : onCommandResult(c, code)
  \/ \E m \in CmdIds : cmdTimeout(m)

SpecClose == Init /\ [][NextClose]_vars

\* A manager that connects, a config node without credentials, and the
\* eufy-event nodes made on either or on no config node, which take input
\* messages and are closed; every node's send() and status() succeed.
NextEvents ==
  \/ getInstance("cfgA")
  \/ createConfigNode("cfgB")
  \/ Connection
  \/ \E cfg \in ConfigIds, nc \in NodeConfigs : createEventNode(cfg, nc)
  \/ \E n \in NodeIds, p \in Payloads : input(n, p)
  \/ \E n \in NodeIds : closeEventNode(n)
  \/ \E c \in ClientIds, type \in EventTypes, d \in Devices, state \in BOOLEAN :
        onDeviceSignal(c, type, d, state, {}, {})

SpecEvents == Init /\ [][NextEvents]_vars

\* The same for the nodes of one manager, whose send() or status() may
\* throw.
NextFanout ==
  \/ getInstance("cfgA")
  \/ Connection
  \/ \E nc \in NodeConfigs : createEventNode("cfgA", nc)
  \/ \E n \in NodeIds, p \in Payloads : input(n, p)
  \/ \E n \in NodeIds : closeEventNode(n)
  \/ \E c \in ClientIds, type \in EventTypes, d \in Devices, state \in BOOLEAN :
        \E badSend \in SUBSET NodeIds : \E badStatus \in SUBSET (NodeIds \ badSend) :
          onDeviceSignal(c, type, d, state, badSend, badStatus)

SpecFanout == Init /\ [][NextFanout]_vars

\* A manager that connects, its subscribers, which may be closed, and
\* every device signal.
NextSignals ==
  \/ getInstance("cfgA")
  \/ Connection
  \/ \E nc \in NodeConfigs : createEventNode("cfgA", nc)
  \/ \E n \in NodeIds : closeEventNode(n)
  \/ \E c \in ClientIds, type \in SignalTypes, d \in Devices, state \in BOOLEAN :
        \E x \in SignalArgs : onDeviceSignalWith(c, type, d, state, x, {}, {})

SpecSignals == Init /\ [][NextSignals]_vars

\* A manager that connects once and is closed, with a connect() or a
\* setSnooze() pending, and the signals its closed client and the armed
\* timers deliver afterwards.
NextLate ==
  \/ getInstance("cfgA")
  \/ Connection
  \/ \E s \in SessionIds : close(s)
  \/ \E k \in ConnectIds : connectTimeout(k)
  \/ \E s \in SessionIds, d \in Devices : setSnooze(s, d)
  \/ \E m \in CmdIds : cmdDevice(m)
  \/ \E m \in CmdIds : cmdStation(m)
  \/ \E w \in WaitIds : waitLookup(w)
  \/ \E w \in WaitIds : waitTimeout(w)
  \/ \E m \in CmdIds : cmdTimeout(m)
  \/ \E c \in ClientIds : onLateConnect(c)
  \/ \E c \in ClientIds, st \in Stations : onLateStationConnect(c, st)
  \/ \E c \in ClientIds, d \in Devices, state \in BOOLEAN :
        onLateDeviceSignal(c, "motion", d, state)

SpecLate == Init /\ [][NextLate]_vars

\* A flow with one config node, which is not deployed again, and its
\* eufy-device nodes: the config node has no credentials, or it has a
\* manager, which connects and which the config node closes and releases
\* when it is closed.
NextDevice ==
  \/ unconfigured = {} /\ released = {} /\ getInstance("cfgA")
  \/ nSessions = 0 /\ createConfigNode("cfgB")
  \/ Connection
  \/ removeInstance("cfgA")
  \/ \E s \in 0..MaxSessions, m \in DeviceInputs : deviceInput(s, m[1], m[2])
  \/ \E i \in InputIds, ok \in BOOLEAN : getDevicePropertiesSettles(i, ok)
  \/ \E i \in InputIds, ok \in BOOLEAN, success \in BOOLEAN :
        clientMethodSettles(i, ok, success)
  \/ \E m \in CmdIds : cmdDevice(m)
  \/ \E m \in CmdIds : cmdStation(m)
  \/ \E w \in WaitIds : waitLookup(w)
  \/ \E w \in WaitIds : waitTimeout(w)
  \/ \E c \in ClientIds, st \in Stations : onStationConnect(c, st)
  \/ \E c \in ClientIds, code \in ReturnCodes : onCommandResult(c, code)
  \/ \E m \in CmdIds : cmdTimeout(m)

SpecDevice == Init /\ [][NextDevice]_vars

\* --------------------------------------------------------------- claims

\* The managers handed out by getInstance and not released since.
Live(cfg) == {s \in Created \ released : configOf[s] = cfg}

\* C1: over any sequence of getInstance and removeInstance calls there is
\* at most one manager per configId that has been handed out and not
\* released, the registry's entry for an id is that manager, and a
\* getInstance for a registered id returns the registered manager without
\* constructing one.
C1_OneManagerPerConfig ==
  /\ \A cfg \in ConfigIds : Cardinality(Live(cfg)) <= 1
  /\ \A cfg \in ConfigIds :
       instances[cfg] # 0 => Live(cfg) = {instances[cfg]}
  /\ returned.prior # 0 =>
       returned.inst = returned.prior /\ ~returned.created

\* A getInstance has returned the registered manager of a config node that
\* was created after another one was released.
C1_Witness ==
  /\ returned.prior = 2
  /\ returned.inst = 2
  /\ released = {1}

\* C2: the setup of connect() (EufySecurity.initialize, then
\* client.connect) never runs twice at a time on one manager: at most one
\* connect() call per manager is between `connecting = true` and its
\* finally, and a call that found one in flight has initialized no client.
C2_SetupAtMostOnce ==
  /\ \A s \in SessionIds : Cardinality(InFlight(s)) <= 1
  /\ \A k \in ConnectIds : connCalls[k].early => connCalls[k].cl = 0
  /\ nClients <= Cardinality({k \in ConnectIds :
                                connCalls[k].sess # 0 /\ ~connCalls[k].early})

\* Two callers have called connect() while a third caller's attempt was,
\* and still is, in flight.
C2_Witness ==
  \E k1, k2 \in ConnectIds :
    /\ k1 # k2
    /\ connCalls[k1].early /\ connCalls[k2].early
    /\ connCalls[k1].during = connCalls[k2].during
    /\ connCalls[connCalls[k1].during].pc = "wait"

\* C3 (as claimed): a connect() call made while another one is in flight
\* concludes only when that attempt has concluded, and with its outcome:
\* resolved if it succeeded, rejected with the same error if it failed.
C3_JoinsInFlightResult ==
  \A k \in ConnectIds :
    connCalls[k].early =>
      LET a == connCalls[connCalls[k].during]
      IN /\ a.pc = "done"
         /\ a.outcome = connCalls[k].outcome
         /\ a.error = connCalls[k].error

\* The setSnooze() calls of manager s whose command has been sent and
\* whose result wait has not concluded.
Outstanding(s) ==
  {m \in CmdIds : cmdCalls[m].sess = s /\ cmdCalls[m].pc = "result"}

\* C4 (as claimed): at most one command is outstanding per manager: a
\* second setSnooze() does not send its command while the first one still
\* waits for its result or timeout.
C4_OneOutstandingCommand ==
  \A s \in SessionIds : Cardinality(Outstanding(s)) <= 1

\* C5 (as claimed): a "station command result" event concludes only the
\* command that caused it: a setSnooze() call that a result event resolved
\* was resolved by the event of its own command.
C5_ResultMatchesOwnCommand ==
  \A m \in CmdIds : cmdCalls[m].by \in {0, m}

\* Client c raises "station connect" for st in this step.
ReadySignal(c, st) ==
  /\ st \notin clients[c].p2p
  /\ st \in clients'[c].p2p

\* C6 (as claimed): one "station connect" for a target resolves every
\* waitForStation() call pending on that target.
C6_ReadySignalResolvesAll ==
  [][\A w \in WaitIds : \A c \in ClientIds :
        ( /\ waitCalls[w].pc = "waiting"
          /\ clients[c].owner = waitCalls[w].sess
          /\ ReadySignal(c, waitCalls[w].serial) )
        => waitCalls'[w].outcome = "resolved"]_vars

\* C7 (as claimed): the timeout of one waiter removes only that waiter:
\* another waiter registered for the same target stays registered.
C7_TimeoutRemovesOnlyItsWaiter ==
  [][\A w, v \in WaitIds :
        ( /\ w # v
          /\ waitCalls[w].timer = "armed"
          /\ waitCalls'[w].timer = "fired"
          /\ waitCalls[v].pc = "waiting"
          /\ waitCalls[v].sess = waitCalls[w].sess
          /\ waitCalls[v].serial = waitCalls[w].serial
          /\ stationReadyPromises[waitCalls[v].sess][waitCalls[v].serial] = v )
        => stationReadyPromises'[waitCalls[v].sess][waitCalls[v].serial] = v]_vars

\* Manager s has no call pending and no timer of a call armed.
Quiescent(s) ==
  /\ \A k \in ConnectIds :
       connCalls[k].sess = s =>
         connCalls[k].pc = "done" /\ connCalls[k].timer # "armed"
  /\ \A w \in WaitIds :
       waitCalls[w].sess = s =>
         waitCalls[w].pc = "done" /\ waitCalls[w].timer # "armed"
  /\ \A m \in CmdIds :
       cmdCalls[m].sess = s =>
         cmdCalls[m].pc = "done" /\ cmdCalls[m].timer # "armed"

\* Manager s has a connect() in flight.
PendingConnect(s) == InFlight(s) # {}

\* Manager s has a waitForStation() from outside waiting for its station.
PendingWait(s) ==
  \E w \in WaitIds :
    waitCalls[w].sess = s /\ waitCalls[w].cmd = 0 /\ waitCalls[w].pc = "waiting"

\* Manager s has a setSnooze() that has not concluded.
PendingCmd(s) ==
  \E m \in CmdIds : cmdCalls[m].sess = s /\ cmdCalls[m].pc \notin {"free", "done"}

\* C8 (as claimed): close() concludes the pending connect(), the pending
\* waitForStation() and the pending setSnooze() of the manager and clears
\* their timers.
C8_CloseCancelsPending ==
  [][\A s \in SessionIds :
        (close(s) /\ PendingConnect(s) /\ PendingWait(s) /\ PendingCmd(s))
        => Quiescent(s)']_vars

\* C9 (as claimed): while the challenge raised during a connect() attempt
\* is unanswered, the attempt is not rejected and no error is recorded.
C9_ChallengeHoldsConnect ==
  [][\A k \in ConnectIds :
        ( /\ connCalls[k].pc = "wait"
          /\ clients[connCalls[k].cl].phase \in ChallengeKinds )
        => /\ connCalls'[k].outcome # "rejected"
           /\ status'[connCalls[k].sess].error = status[connCalls[k].sess].error]_vars

\* C10 (as claimed): a challenge response submitted while no challenge of
\* its kind is pending is rejected and nothing is forwarded to the client.
C10_SubmitNeedsPendingChallenge ==
  \A j \in SubmitIds :
    (subCalls[j].sess # 0 /\ subCalls[j].pending # subCalls[j].kind) =>
      /\ ~subCalls[j].forwarded
      /\ subCalls[j].outcome = "rejected"

\* C11 (as claimed): when a connect() attempt that got as far as
\* client.connect() fails (connection error, client.connect rejection or
\* the connect timer), the call is rejected, status.error holds the
\* message, and the manager is neither connecting nor connected.
C11_FailedConnectLeavesIdle ==
  [][\A k \in ConnectIds :
        ( /\ connCalls[k].pc = "wait"
          /\ connCalls'[k].outcome = "rejected" )
        => /\ status'[connCalls[k].sess].error = connCalls'[k].error
           /\ connCalls'[k].error # NoError
           /\ ~connecting'[connCalls[k].sess]
           /\ ~status'[connCalls[k].sess].connected]_vars

\* The eufy-event nodes registered on manager s.
Subscribers(s) ==
  {n \in NodeIds : Includes(deviceEventListeners[s], n)}

\* The filter of the node lets the event through, as the claim words it:
\* the device filter is absent or is the event's device, and the list of
\* event types is empty or holds the event's type.
Matches(node, ev) ==
  /\ (FilterDevice(node) \in {"", Undefined} \/ FilterDevice(node) = ev.device)
  /\ (FilterEvents(node) = << >>
        \/ \E i \in DOMAIN FilterEvents(node) : FilterEvents(node)[i] = ev.event)

\* C12: when a manager publishes an event (and no handler throws), an
\* eufy-event node sends a message for it if and only if it is registered
\* on that manager and its effective filter matches: device filter absent
\* or equal to the event's device, and event types empty or holding the
\* event's type.  (An emit that leaves lastEmit as it was changes no
\* variable: it is a stuttering step.)
C12_DeliveredIffFilterMatches ==
  [][lastEmit' # lastEmit =>
      \A c \in ClientIds, type \in EventTypes, d \in Devices :
        onDeviceSignal(c, type, d, TRUE, {}, {}) =>
          \A n \in NodeIds :
            Includes(lastEmit'.sent, n)
              <=> /\ n \in Subscribers(clients[c].owner)
                  /\ Matches(eventNodes[n], [event |-> type, device |-> d])]_vars

\* An event of device D1 has reached the node filtered to D1 and not the
\* node filtered to D2, which listens to the same manager.
C12_Witness ==
  \E n1, n2 \in NodeIds :
    /\ FilterDevice(eventNodes[n1]) = "D1"
    /\ FilterDevice(eventNodes[n2]) = "D2"
    /\ {n1, n2} \subseteq Subscribers(1)
    /\ lastEmit.device = "D1"
    /\ lastEmit.sent = <<n1>>

\* C13 (as claimed): an input message to an eufy-event node sends nothing
\* and changes nothing but the node's runtime filter; a field present in
\* its payload is the filter in force from then on (an empty device: every
\* device), a field that is not present keeps its value, and no other
\* step changes the runtime filter, so the events published later are
\* matched by it until the next input message.
C13_UpdateAffectsLaterEventsOnly ==
  [][eventNodes' # eventNodes =>
      \A n \in NodeIds :
        /\ \A p \in Payloads :
             input(n, p) =>
               /\ lastEmit' = lastEmit
               /\ (p.defined /\ p.hasDevice) =>
                     \A type \in EventTypes, d \in Devices :
                       Passes(eventNodes'[n], [event |-> type, device |-> d])
                         <=> /\ p.device \in {"", d}
                             /\ (FilterEvents(eventNodes'[n]) = << >>
                                   \/ Includes(FilterEvents(eventNodes'[n]), type))
               /\ (p.defined /\ p.hasEvents) =>
                     FilterEvents(eventNodes'[n]) = p.events
               /\ ~p.hasDevice =>
                     eventNodes'[n].runtimeFilter.device
                       = eventNodes[n].runtimeFilter.device
               /\ ~p.hasEvents =>
                     /\ eventNodes'[n].runtimeFilter.hasEvents
                          = eventNodes[n].runtimeFilter.hasEvents
                     /\ eventNodes'[n].runtimeFilter.events
                          = eventNodes[n].runtimeFilter.events
        /\ (\A p \in Payloads : ~input(n, p)) =>
             eventNodes'[n].runtimeFilter = eventNodes[n].runtimeFilter]_vars

\* The payload that the documentation gives to clear the filter.
ClearPayload ==
  [defined |-> TRUE, hasDevice |-> TRUE, device |-> "",
   hasEvents |-> TRUE, events |-> << >>]

\* C14 (as claimed): after an input message {device: "", events: []} the
\* node forwards every event, of every device and every type, whatever
\* its configuration.
C14_ClearFilterListensToAll ==
  [][\A n \in NodeIds :
        input(n, ClearPayload) =>
          \A type \in EventTypes, d \in Devices :
            Passes(eventNodes'[n], [event |-> type, device |-> d])]_vars

\* C15 (as claimed): when the handler of a node throws while an event is
\* delivered, every other registered node whose filter matches still
\* sends its message, and the emit does not throw.
C15_ThrowingHandlerIsolated ==
  [][\A c \in ClientIds, type \in EventTypes, d \in Devices :
        \A badSend \in SUBSET NodeIds, badStatus \in SUBSET NodeIds :
          onDeviceSignal(c, type, d, TRUE, badSend, badStatus) =>
            /\ ~lastEmit'.threw
            /\ \A n \in Subscribers(clients[c].owner) \ badSend :
                 Matches(eventNodes[n], [event |-> type, device |-> d])
                   => Includes(lastEmit'.sent, n)]_vars

\* The setSnooze() calls whose command has been sent to the station.
Sent == {dispatched[i] : i \in DOMAIN dispatched}

\* The waitForStation() call that setSnooze() call m made.
WaitOf(m) == {w \in WaitIds : waitCalls[w].cmd = m}

\* C16: setSnooze() sends its command only once its waitForStation() has
\* resolved, and the step that sends it is one in which the local link of
\* the station is up (found up at the lookup, or raised by "station
\* connect"); a setSnooze() whose waitForStation() timed out is rejected
\* with the timeout error of the wait and its command is never sent.
C16_DispatchOnlyWhenReady ==
  [][\A m \in CmdIds :
        /\ (m \in Sent' \ Sent) =>
             /\ StationOf(cmdCalls[m].device) \in clients'[cmdCalls[m].cl].p2p
             /\ cmdCalls[m].pc = "waitStation"
        /\ (m \in Sent') =>
             \E w \in WaitOf(m)' : waitCalls'[w].outcome = "resolved"
        /\ \A w \in WaitOf(m)' :
             waitCalls'[w].error = ErrStationTimeout =>
               /\ cmdCalls'[m].outcome = "rejected"
               /\ cmdCalls'[m].error = ErrStationTimeout
               /\ m \notin Sent']_vars

\* One setSnooze() found the link of its station down, waited, and sent
\* its command when "station connect" came; another one waited until the
\* timer of its wait fired.
C16_Witness ==
  \E m1, m2 \in CmdIds, w1, w2 \in WaitIds :
    /\ waitCalls[w1].cmd = m1
    /\ waitCalls[w1].timer = "cleared"
    /\ waitCalls[w1].outcome = "resolved"
    /\ m1 \in Sent
    /\ waitCalls[w2].cmd = m2
    /\ waitCalls[w2].timer = "fired"
    /\ cmdCalls[m2].error = ErrStationTimeout
    /\ m2 \notin Sent

\* C17: every command that was sent concludes, and one that is concluded
\* by its timer (no result event came first) resolves with success =
\* false; this holds of every command, so also of one sent after another
\* command of the manager has timed out.
C17_DispatchedCommandConcludes ==
  /\ \A m \in CmdIds :
       (cmdCalls[m].pc = "result") ~> (cmdCalls[m].pc = "done")
  /\ [][\A m \in CmdIds :
          ( /\ cmdCalls[m].pc = "result"
            /\ cmdCalls[m].timer = "armed"
            /\ cmdCalls'[m].timer = "fired" )
          => /\ cmdCalls'[m].pc = "done"
             /\ cmdCalls'[m].outcome = "resolved"
             /\ ~cmdCalls'[m].success]_vars

\* The first command of a manager timed out and resolved false; the
\* second one was sent as well and was concluded by its own result event.
C17_Witness ==
  /\ dispatched = <<1, 2>>
  /\ cmdCalls[1].sess = cmdCalls[2].sess
  /\ cmdCalls[1].timer = "fired"
  /\ cmdCalls[1].outcome = "resolved"
  /\ ~cmdCalls[1].success
  /\ cmdCalls[2].pc = "done"
  /\ cmdCalls[2].by = 2
  /\ cmdCalls[2].success

\* C18 (as claimed): a command that was sent and has concluded has no
\* result listener left on any client and no timer armed, so that no
\* later result event or timer expiry runs for it.
C18_ResolvedCommandLeavesNothing ==
  \A m \in Sent :
    cmdCalls[m].pc = "done" =>
      /\ cmdCalls[m].timer # "armed"
      /\ \A c \in ClientIds : m \notin clients[c].listeners

\* The last signal the manager has recorded for station st is a "station
\* connect": the status lists the station as P2P connected.
TrackedReady(s, st) ==
  \E i \in DOMAIN status[s].stations :
    /\ status[s].stations[i].serial = st
    /\ status[s].stations[i].p2pConnected

\* C19: a waitForStation() whose station lookup returns when the station
\* is ready (whether the "station connect" came before the call or while
\* the lookup was pending) resolves in that step, arms no timer and
\* registers no waiter.
C19_ReadyTargetResolvesAtOnce ==
  [][\A w \in WaitIds :
        ( /\ waitCalls[w].pc = "lookup"
          /\ waitCalls'[w].pc # "lookup"
          /\ TrackedReady(waitCalls[w].sess, waitCalls[w].serial) )
        => /\ waitCalls'[w].pc = "done"
           /\ waitCalls'[w].outcome = "resolved"
           /\ waitCalls'[w].timer = "none"
           /\ stationReadyPromises' = stationReadyPromises]_vars

\* Two calls for one station: the first registered a waiter that "station
\* connect" resolved; the second, whose lookup returned after that signal,
\* resolved without a timer.
C19_Witness ==
  \E w1, w2 \in WaitIds :
    /\ w1 < w2
    /\ waitCalls[w1].serial = waitCalls[w2].serial
    /\ waitCalls[w1].sess = waitCalls[w2].sess
    /\ waitCalls[w1].outcome = "resolved"
    /\ waitCalls[w1].timer = "cleared"
    /\ waitCalls[w2].outcome = "resolved"
    /\ waitCalls[w2].timer = "none"
    /\ TrackedReady(waitCalls[w2].sess, waitCalls[w2].serial)

\* Manager s is closed: it holds no client and its status is the one
\* close() leaves.
Closed(s) ==
  /\ client[s] = 0
  /\ status = ClosedStatus(s)

\* C20: close() leaves the manager closed, and close() on a closed manager
\* changes nothing: no variable of the manager and no client changes, and
\* client.close() is not called again.
C20_CloseIsIdempotent ==
  [][\A s \in SessionIds :
        close(s) =>
          /\ Closed(s)'
          /\ Closed(s) => UNCHANGED vars
          /\ \A c \in ClientIds : clients'[c].closes <= 1]_vars

\* A manager whose client was connected and has been torn down once is
\* closed; close() is enabled on it.
C20_Witness ==
  \E s \in Created, c \in ClientIds :
    /\ clients[c].owner = s
    /\ clients[c].closes = 1
    /\ Closed(s)
    /\ \E k \in ConnectIds :
         connCalls[k].sess = s /\ connCalls[k].cl = c
           /\ connCalls[k].outcome = "resolved"

\* close() has been called on manager s while it held a client.
WasClosed(s) ==
  \E c \in ClientIds : clients[c].owner = s /\ clients[c].closes > 0

\* C21 (as claimed): once close() has been called on a manager, the
\* manager never holds a client again and its status never reports
\* connected again.
C21_ClosedIsTerminal ==
  \A s \in SessionIds :
    WasClosed(s) => client[s] = 0 /\ ~status[s].connected

\* C22: removeInstance(id) on a registered id closes the manager and
\* deletes its entry; on an id without an entry it changes nothing; and a
\* getInstance(id) that finds no entry constructs a manager that was never
\* handed out before, disconnected and without a client, and registers it.
C22_ReleaseIsIdempotent ==
  [][\A cfg \in ConfigIds :
        /\ removeInstance(cfg) =>
             /\ instances'[cfg] = 0
             /\ \A s \in SessionIds :
                  s = instances[cfg] => Closed(s)' /\ s \in released'
             /\ instances[cfg] = 0 => UNCHANGED vars
        /\ (getInstance(cfg) /\ instances[cfg] = 0) =>
             /\ returned'.created
             /\ returned'.inst \notin Created
             /\ returned'.inst \notin released
             /\ instances'[cfg] = returned'.inst
             /\ client'[returned'.inst] = 0
             /\ status'[returned'.inst] = InitialStatus]_vars

\* The manager of a config node was connected and then released: it is
\* closed and has no entry; a later getInstance for the same id has
\* constructed and registered a second manager.
C22_Witness ==
  /\ released = {1}
  /\ Closed(1)
  /\ \E c \in ClientIds : clients[c].owner = 1 /\ clients[c].closes = 1
  /\ returned.created
  /\ returned.inst = 2
  /\ returned.cfg = configOf[1]
  /\ instances[returned.cfg] = 2

\* C23: connect() on a manager that holds a client and whose status
\* reports connected resolves at once: the call never reaches
\* EufySecurity.initialize or client.connect, and neither the status, the
\* client, the clients nor `connecting` change.
C23_ConnectWhenConnectedIsNoOp ==
  [][\A s \in SessionIds :
        (connect(s) /\ client[s] # 0 /\ status[s].connected) =>
          /\ connCalls'[nConnect'].sess = s
          /\ connCalls'[nConnect'].pc = "done"
          /\ connCalls'[nConnect'].outcome = "resolved"
          /\ connCalls'[nConnect'].cl = 0
          /\ UNCHANGED <<status, client, clients, nClients, connecting>>]_vars

\* A connect() call made on a connected manager, with no other call in
\* flight, has resolved without a client of its own.
C23_Witness ==
  \E k \in ConnectIds :
    /\ connCalls[k].pc = "done"
    /\ connCalls[k].outcome = "resolved"
    /\ ~connCalls[k].early
    /\ connCalls[k].cl = 0
    /\ client[connCalls[k].sess] # 0
    /\ status[connCalls[k].sess].connected

\* C24 (as claimed): while the response to a pending challenge waits for
\* the client, a connect timer is armed on the manager, so that the wait
\* concludes by the acknowledgment or by the timeout.
C24_ResumedWaitIsBounded ==
  \A j \in SubmitIds :
    (subCalls[j].pc = "wait" /\ subCalls[j].pending = subCalls[j].kind) =>
      \E k \in ConnectIds :
        /\ connCalls[k].sess = subCalls[j].sess
        /\ connCalls[k].cl = subCalls[j].cl
        /\ connCalls[k].timer = "armed"


\* ------------------------------------------------------------------ C25

\* The message with payload p, handed to a node with configuration nc on
\* the config node of manager s, fails before any call is awaited: no
\* client, not connected, no target, no action, an unknown action, an
\* action the target does not take, or an action without the property,
\* the value, the direction or the speed it needs.
FailsAtOnce(s, nc, p) ==
  LET action == ActionOf(nc, p)
      station == TargetType(nc, p) = "station"
  IN \/ s = 0
     \/ s \in released
     \/ ~status[s].connected
     \/ ~Truthy(TargetSerial(nc, p))
     \/ ~Truthy(action)
     \/ action \notin {"snooze", "unsnooze", "getProperties", "getProperty",
                       "setProperty", "panTilt", "setPanTiltSpeed"}
     \/ station /\ action \in {"snooze", "unsnooze", "panTilt", "setPanTiltSpeed"}
     \/ action \in {"getProperty", "setProperty"} /\ ~Truthy(PropertyName(nc, p))
     \/ action = "setProperty" /\ PropertyValue(nc, p).type \in {"undefined", "null"}
     \/ action = "panTilt" /\ ~Truthy(Direction(nc, p))
     \/ action = "setPanTiltSpeed" /\ Speed(nc, p).type \in {"undefined", "null"}

\* The actions that read: their success is that the call resolved.
Reads == {"getProperties", "getProperty"}

\* C25: the eufy-device node sends exactly one output message for every
\* input message.  A message that fails before a call is awaited is
\* answered at once with success = false and an error text, and done() is
\* handed that error; a message whose call was started is answered in the
\* step that settles the call, and not before: with no error and with
\* success as the call resolved (true for a read), or with success =
\* false and the error it rejected with (readiness timeout, client
\* error), which done() is handed; a message that was answered is never
\* answered again.
C25_OneOutputPerInput ==
  [][/\ nInputs' # nInputs =>
        \A s \in 0..MaxSessions, m \in DeviceInputs :
          deviceInput(s, m[1], m[2]) =>
            LET i == nInputs'
            IN IF FailsAtOnce(s, m[1], m[2])
               THEN /\ deviceCalls'[i].pc = "done"
                    /\ deviceCalls'[i].sends = 1
                    /\ lastOutput'.input = i
                    /\ ~lastOutput'.success
                    /\ lastOutput'.error # NoError
                    /\ deviceCalls'[i].reported = lastOutput'.error
               ELSE /\ deviceCalls'[i].pc = "await"
                    /\ deviceCalls'[i].sends = 0
                    /\ lastOutput' = lastOutput
     /\ \A i \in InputIds :
          /\ (deviceCalls[i].pc = "await" /\ deviceCalls'[i].pc # "await") =>
               LET ret == Settled(deviceCalls'[i], cmdCalls')
               IN /\ Settled(deviceCalls[i], cmdCalls).outcome = "pending"
                  /\ ret.outcome \in {"resolved", "rejected"}
                  /\ deviceCalls'[i].pc = "done"
                  /\ deviceCalls'[i].sends = 1
                  /\ ret.outcome = "resolved" =>
                        deviceCalls'[i].reported = NoError
                  /\ ret.outcome = "rejected" =>
                        /\ ret.error # NoError
                        /\ deviceCalls'[i].reported = ret.error
                  /\ lastOutput' # lastOutput
                  /\ lastOutput'.input = i =>
                        /\ lastOutput'.error = deviceCalls'[i].reported
                        /\ lastOutput'.success
                             = /\ ret.outcome = "resolved"
                               /\ (ret.success \/ deviceCalls[i].action \in Reads)
          /\ (deviceCalls[i].pc = "await" /\ deviceCalls'[i].pc = "await") =>
                /\ Settled(deviceCalls'[i], cmdCalls').outcome = "pending"
                /\ deviceCalls'[i].sends = 0
                /\ lastOutput'.input # i
          /\ deviceCalls[i].pc = "done" =>
                /\ deviceCalls'[i] = deviceCalls[i]
                /\ lastOutput' # lastOutput => lastOutput'.input # i
     /\ lastOutput' # lastOutput =>
          /\ deviceCalls[lastOutput'.input].pc # "done"
          /\ deviceCalls'[lastOutput'.input].pc = "done"]_vars

\* Both messages were answered, the first with the success of its command
\* and the second with the readiness timeout as its error.
C25_Witness ==
  /\ deviceCalls[1].pc = "done" /\ deviceCalls[1].sends = 1
  /\ deviceCalls[1].reported = NoError
  /\ deviceCalls[2].pc = "done" /\ deviceCalls[2].sends = 1
  /\ deviceCalls[2].reported = ErrStationTimeout
  /\ lastOutput.input = 2
  /\ ~lastOutput.success
  /\ lastOutput.error = ErrStationTimeout


\* ------------------------------------------------------------------ C26

\* The default is taken only when no duration is given.
DurationIfGiven(p) ==
  IF p.options.hasDuration THEN p.options.duration ELSE DefaultSnooze

\* C26: when a message starts a call, the action and the target are
\* those of msg.payload if it gives them and those of the node
\* configuration otherwise (the target is the station for the target type
\* "station", else the device), and a snooze is sent to that device with
\* msg.payload.options.duration whenever the message gives one, with 7200
\* seconds only when it gives none.
C26_SnoozeSendsGivenDuration ==
  [][nInputs' # nInputs =>
      \A s \in SessionIds, m \in DeviceInputs :
       (deviceInput(s, m[1], m[2]) /\ ~FailsAtOnce(s, m[1], m[2])) =>
         LET call == deviceCalls'[nInputs']
             nc == m[1]
             p == m[2]
             type == IF p.targetType # Undefined THEN p.targetType ELSE nc.targetType
         IN /\ call.action = (IF p.action # Undefined THEN p.action ELSE nc.action)
            /\ call.targetType = type
            /\ type = "device" =>
                  call.target = (IF p.device # Undefined THEN p.device ELSE nc.device)
            /\ type = "station" =>
                  call.target = (IF p.station # Undefined THEN p.station ELSE nc.station)
            /\ call.action \in {"snooze", "unsnooze"} =>
                  cmdCalls'[call.cmd].device = call.target
            /\ call.action = "snooze" => call.duration = DurationIfGiven(p)]_vars


\* ------------------------------------------------------------------ C27

\* The detection signals whose event carries the bare boolean.
Flags == {"motion", "petDetected", "cryingDetected", "soundDetected", "rings"}

\* C27: a device signal publishes an event whose value has the shape of
\* its type: true for motion, petDetected, cryingDetected, soundDetected
\* and rings, {detected: true, person} for personDetected and
\* {property, value} for propertyChanged; a detection signal whose state
\* is false publishes nothing.  (A signal that leaves lastEmit as it was
\* changes no variable: it is a stuttering step.)
C27_ValueShapeByType ==
  [][lastEmit' # lastEmit =>
      \A c \in ClientIds, type \in SignalTypes, d \in Devices,
        state \in BOOLEAN, x \in SignalArgs :
       onDeviceSignalWith(c, type, d, state, x, {}, {}) =>
         IF type # "propertyChanged" /\ ~state
         THEN lastEmit' = lastEmit
         ELSE /\ lastEmit'.event = type
              /\ lastEmit'.device = d
              /\ type \in Flags => lastEmit'.value = [boolean |-> TRUE]
              /\ type = "personDetected" =>
                   lastEmit'.value = [detected |-> TRUE, person |-> x.person]
              /\ type = "propertyChanged" =>
                   lastEmit'.value = [property |-> x.name, value |-> x.value]]_vars

\* A person event with its person was published to a subscriber.
C27_Witness ==
  /\ lastEmit.event = "personDetected"
  /\ lastEmit.value = [detected |-> TRUE, person |-> "alice"]
  /\ lastEmit.sent # << >>


\* ------------------------------------------------------------------ C28

\* Manager s was connected (the connect() call that made its client
\* resolved) and the client signalled "close" on its own: the manager
\* still holds the client, and no connect() is in flight.
Lost(s) ==
  /\ client[s] # 0
  /\ clients[client[s]].phase = "idle"
  /\ \E k \in ConnectIds :
        connCalls[k].cl = client[s] /\ connCalls[k].outcome = "resolved"
  /\ ~status[s].connected
  /\ ~connecting[s]

\* C28: after an involuntary disconnect of a connected manager a new
\* connection attempt is eventually in flight, unless the manager is
\* closed meanwhile (stated of a manager whose callers could still call
\* connect(), so that nothing but the program keeps an attempt away).
C28_ReconnectsAfterLoss ==
  \A s \in SessionIds :
    (Lost(s) /\ nConnect < MaxConnectCalls) ~> (connecting[s] \/ client[s] = 0)


\* ------------------------------------------------------------------ C29

\* The clients of manager s that are open with the manager's handlers
\* attached: setupEventHandlers attached them and nothing closed the
\* client since.
OpenClients(s) ==
  {c \in ClientIds : clients[c].owner = s /\ clients[c].phase # "closed"}

\* C29: a manager has at most one underlying client open with its
\* handlers attached, so that one raw device signal reaches the manager
\* through one client only.
C29_SingleUnderlyingClient ==
  \A s \in SessionIds : Cardinality(OpenClients(s)) <= 1


\* ------------------------------------------------------------------ C30

\* C30: a waiter of waitForStation that is pending on target T has its
\* timer armed, and a step concludes it only if the step is a ready signal
\* for T on its manager, which resolves it, or its own timeout, which
\* rejects it with the readiness timeout error; a ready signal for another
\* target, or the timeout of a waiter on another target, leaves the waiter
\* and the registration of T as they are.
C30_OnlyOwnTargetConcludes ==
  [][\A w \in WaitIds :
       waitCalls[w].pc = "waiting" =>
         LET s == waitCalls[w].sess
             t == waitCalls[w].serial
         IN /\ waitCalls[w].timer = "armed"
            /\ waitCalls'[w].pc = "done" =>
                 \/ /\ waitCalls'[w].outcome = "resolved"
                    /\ \E c \in ClientIds :
                         clients[c].owner = s /\ onStationConnect(c, t)
                 \/ /\ waitCalls'[w].outcome = "rejected"
                    /\ waitCalls'[w].error = ErrStationTimeout
                    /\ waitTimeout(w)
            /\ waitTimeout(w) =>
                 /\ waitCalls'[w].pc = "done"
                 /\ waitCalls'[w].outcome = "rejected"
                 /\ waitCalls'[w].error = ErrStationTimeout
            /\ \A c \in ClientIds, t2 \in Stations \ {t} :
                 onStationConnect(c, t2) =>
                   /\ waitCalls'[w] = waitCalls[w]
                   /\ stationReadyPromises'[s][t] = stationReadyPromises[s][t]
            /\ \A w2 \in WaitIds :
                 (waitCalls[w2].serial # t /\ waitTimeout(w2)) =>
                   /\ waitCalls'[w] = waitCalls[w]
                   /\ stationReadyPromises'[s][t] = stationReadyPromises[s][t]]_vars

\* A waiter is still pending and registered on S1 after a waiter on S2 was
\* rejected by its timeout.
C30_Witness ==
  \E w \in WaitIds, w2 \in WaitIds :
    /\ waitCalls[w].pc = "waiting"
    /\ waitCalls[w].serial = "S1"
    /\ stationReadyPromises[waitCalls[w].sess]["S1"] = w
    /\ waitCalls[w2].sess = waitCalls[w].sess
    /\ waitCalls[w2].serial = "S2"
    /\ waitCalls[w2].outcome = "rejected"
    /\ waitCalls[w2].error = ErrStationTimeout
    /\ waitCalls[w2].timer = "fired"


\* ------------------------------------------------------------------ C31

\* Every waitForStation() call made so far has concluded.
AllConcluded == \A w \in WaitIds : waitCalls[w].pc \in {"free", "done"}

\* C31: the readiness bookkeeping does not leak: a waiter that has
\* concluded, by resolution or by timeout, has no armed timer and is the
\* entry of no serial in the Map of any manager, and once every waiter has
\* concluded the Map of every manager is empty.
C31_ReadinessDoesNotLeak ==
  /\ \A w \in WaitIds :
       waitCalls[w].pc = "done" =>
         /\ waitCalls[w].timer # "armed"
         /\ \A s \in SessionIds, st \in Stations : stationReadyPromises[s][st] # w
  /\ AllConcluded =>
       \A s \in SessionIds, st \in Stations : stationReadyPromises[s][st] = 0

\* Two waiters have concluded, one resolved by the ready signal with its
\* timer cleared and one rejected by its timer, and the Map is empty.
C31_Witness ==
  /\ AllConcluded
  /\ \E w \in WaitIds :
       waitCalls[w].outcome = "resolved" /\ waitCalls[w].timer = "cleared"
  /\ \E w \in WaitIds :
       waitCalls[w].outcome = "rejected" /\ waitCalls[w].timer = "fired"
  /\ \A s \in SessionIds, st \in Stations : stationReadyPromises[s][st] = 0


\* ------------------------------------------------------------------ C32

\* C32 (as claimed): the timeout of a waiter, or of a command, leaves the
\* status of every manager as it is (connected, cloudConnected,
\* pushConnected, the station list) and changes nothing of any other
\* waiter or command: neither where it stands, nor, for a waiter that is
\* registered for its station, the registration by which the ready signal
\* resolves it.  The timeout of a waiter changes, besides the waiter, only
\* the command that awaits it.
C32_TimeoutLeavesOthers ==
  [][/\ \A w \in WaitIds :
          waitTimeout(w) =>
            /\ status' = status
            /\ \A v \in WaitIds \ {w} :
                 /\ waitCalls'[v] = waitCalls[v]
                 /\ \A s \in SessionIds, st \in Stations :
                      stationReadyPromises[s][st] = v
                        => stationReadyPromises'[s][st] = v
            /\ \A m \in CmdIds \ {waitCalls[w].cmd} : cmdCalls'[m] = cmdCalls[m]
     /\ \A m \in CmdIds :
          cmdTimeout(m) =>
            /\ status' = status
            /\ waitCalls' = waitCalls
            /\ stationReadyPromises' = stationReadyPromises
            /\ \A n \in CmdIds \ {m} : cmdCalls'[n] = cmdCalls[n]]_vars


\* ------------------------------------------------------------------ C33

\* C33: a "station close" for one station leaves connected,
\* cloudConnected, pushConnected and the error of its manager as they
\* are, marks the entry of that station as not connected and leaves every
\* other entry of the station list as it is; for a station that has no
\* entry it changes nothing; the status of every other manager stays.
C33_StationCloseMarksOnlyItsTarget ==
  [][\A c \in ClientIds, st \in Stations :
       onStationClose(c, st) =>
         LET s == clients[c].owner
             old == status[s].stations
             new == status'[s].stations
         IN /\ status'[s].connected = status[s].connected
            /\ status'[s].cloudConnected = status[s].cloudConnected
            /\ status'[s].pushConnected = status[s].pushConnected
            /\ status'[s].error = status[s].error
            /\ Len(new) = Len(old)
            /\ \A i \in 1..Len(old) :
                 IF old[i].serial = st
                 THEN new[i] = [old[i] EXCEPT !.p2pConnected = FALSE]
                 ELSE new[i] = old[i]
            /\ (\A i \in 1..Len(old) : old[i].serial # st) => status' = status
            /\ \A s2 \in SessionIds \ {s} : status'[s2] = status[s2]]_vars

\* The link of S1 dropped while that of S2 is up, on a connected manager.
C33_Witness ==
  \E s \in SessionIds :
    /\ status[s].connected /\ status[s].cloudConnected
    /\ Len(status[s].stations) = 2
    /\ \E i \in 1..2, j \in 1..2 :
         /\ status[s].stations[i] = [serial |-> "S1", name |-> "S1", p2pConnected |-> FALSE]
         /\ status[s].stations[j] = [serial |-> "S2", name |-> "S2", p2pConnected |-> TRUE]


\* ------------------------------------------------------------------ C34

\* No two entries of the list have the same serial.
OnePerSerial(list) ==
  \A i \in 1..Len(list), j \in 1..Len(list) :
    list[i].serial = list[j].serial => i = j

\* C34: after every step the station list of every manager has at most
\* one entry per serial, and a "station connect" for a serial that has an
\* entry puts the new entry in its place and leaves the length of the
\* list and the other entries as they are.
C34_OneEntryPerStation ==
  [][/\ \A s \in SessionIds : OnePerSerial(status'[s].stations)
     /\ \A c \in ClientIds, st \in Stations :
          (onStationConnect(c, st) /\ FindIndex(status[clients[c].owner].stations, st) > 0) =>
            LET old == status[clients[c].owner].stations
                new == status'[clients[c].owner].stations
            IN /\ Len(new) = Len(old)
               /\ \A i \in 1..Len(old) :
                    IF old[i].serial = st THEN new[i] = StationInfo(st)
                    ELSE new[i] = old[i]]_vars

\* Both stations are in the list, the link of S2 is up and that of S1,
\* the first to connect, dropped: the next "station connect" of S1 finds
\* its entry.
C34_Witness ==
  \E s \in SessionIds, c \in ClientIds :
    /\ client[s] = c
    /\ clients[c].phase = "connected"
    /\ clients[c].p2p = {"S2"}
    /\ status[s].stations =
         <<[serial |-> "S1", name |-> "S1", p2pConnected |-> FALSE],
           [serial |-> "S2", name |-> "S2", p2pConnected |-> TRUE]>>


\* ------------------------------------------------------------------ C35

\* C35: `connecting` is true of a manager exactly while one of its
\* connect() calls is in flight; a call comes to be in flight only by a
\* connect() step, never on the manager's own account after a failure;
\* and a connect() on a manager that is not connected and has no call in
\* flight, whatever concluded before, starts a fresh attempt.
C35_FailureNeitherRetriesNorBlocks ==
  [][\A s \in SessionIds :
       /\ connecting'[s] <=> InFlight(s)' # {}
       /\ InFlight(s)' \ InFlight(s) # {} => connect(s)
       /\ (connect(s) /\ InFlight(s) = {} /\ ~status[s].connected) =>
            /\ connCalls'[nConnect'].sess = s
            /\ connCalls'[nConnect'].pc = "init"
            /\ ~connCalls'[nConnect'].early
            /\ connecting'[s]]_vars

\* After a connect() that was rejected by its timer and one that was
\* rejected by the library, a third one is a fresh attempt in flight.
C35_Witness ==
  \E s \in SessionIds :
    /\ connCalls[1].sess = s /\ connCalls[2].sess = s /\ connCalls[3].sess = s
    /\ connCalls[1].outcome = "rejected"
    /\ connCalls[2].outcome = "rejected"
    /\ {connCalls[1].error, connCalls[2].error} = {ErrConnectionTimeout, ErrLibrary}
    /\ connCalls[3].pc = "init"
    /\ connecting[s]
    /\ ~status[s].connected


\* ------------------------------------------------------------------ C36

\* C36: in every state status.connected equals status.cloudConnected, for
\* every manager.
C36_ConnectedIsCloudConnected ==
  \A s \in SessionIds : status[s].connected = status[s].cloudConnected

\* A manager that was closed and is connected again through a new
\* client: both fields are true.
C36_Witness ==
  \E s \in SessionIds :
    /\ status[s].connected /\ status[s].cloudConnected
    /\ client[s] # 0
    /\ clients[client[s]].phase = "connected"
    /\ \E c \in ClientIds : clients[c].owner = s /\ clients[c].closes > 0


\* ------------------------------------------------------------------ C37

\* C37: a status that reports connected reports no error.
C37_ConnectedReportsNoError ==
  \A s \in SessionIds : status[s].connected => status[s].error = NoError


\* ------------------------------------------------------------------ C38

\* Manager s was closed and no connect() was called on it since: its
\* client was closed, it holds none, and every connect() call on it was
\* made before the close (it concluded, or it waits on the closed client).
ClosedSince(s) ==
  /\ WasClosed(s)
  /\ client[s] = 0
  /\ \A k \in ConnectIds :
       connCalls[k].sess = s =>
         /\ connCalls[k].pc # "init"
         /\ connCalls[k].cl # 0 => clients[connCalls[k].cl].phase = "closed"

\* C38: as long as a manager is closed and no connect() was called since,
\* its status reports connected, cloudConnected and pushConnected false
\* and an empty station list, it publishes no deviceEvent and none of its
\* setSnooze() calls dispatches a command, whatever its closed client or
\* an armed timer delivers.
C38_ClosedStaysInert ==
  [][\A s \in SessionIds :
       (ClosedSince(s) /\ ClosedSince(s)') =>
         /\ ~status'[s].connected
         /\ ~status'[s].cloudConnected
         /\ ~status'[s].pushConnected
         /\ status'[s].stations = << >>
         /\ lastEmit'.sess = s => lastEmit' = lastEmit
         /\ \A m \in CmdIds :
              cmdCalls[m].sess = s =>
                (Includes(dispatched', m) => Includes(dispatched, m))]_vars

=============================================================================
